---- MODULE Spec2Model ----
(***************************************************************************)
(* Verification model of the Silverback x402 facilitator: the verify and   *)
(* settle request handlers (routes/verify, routes/settle), the settlement  *)
(* service (settlePayment, settleErc3009), the replay store and audit log  *)
(* (services/database), the token registry and fee arithmetic              *)
(* (config/tokens) and the fee computed by the X402FeeSplitter contract.   *)
(*                                                                         *)
(* Every await of a handler is a step of its own, so that concurrent       *)
(* requests interleave exactly where the Node.js event loop lets them.     *)
(* Error messages are represented by the set of marker words (the          *)
(* substrings mapSettleErrorToX402Code looks for) that the message holds.  *)
(* A fee percentage (a JS number such as 0.1) is represented by its value  *)
(* in hundredths of a percent (0.1 -> 10, 0.25 -> 25, 15 -> 1500).         *)
(***************************************************************************)
EXTENDS Integers, Sequences, FiniteSets, TLC

\* ------------------------------------------------------------------ bounds
\* number of HTTP requests (verify or settle) the model lets run
MaxCalls == 2
\* the clock runs from 1 to MaxNow (seconds)
MaxNow == 2

Calls == 1..MaxCalls

\* ------------------------------------------------------- requests (inputs)
\* A request is a payment payload with its payment requirements.
\*   a1: a Permit2 (witness-spend) authorization over USDC
\*   a2: an ERC-3009 (direct) authorization over USDC
\*   a3: a Permit2 authorization over a token that is listed only at runtime
\*   a4: an ERC-3009 authorization over a token that is never listed
Requests ==
  { [id |-> "a1", protocol |-> "permit2", payer |-> "0xP1", nonce |-> 1,
     token |-> "0xusdc", amount |-> 12345, receiver |-> "payTo",
     validAfter |-> 0, validBefore |-> 3, deadline |-> 1, signer |-> "0xP1",
     payTo |-> "payTo", maxAmountRequired |-> 12345],
    [id |-> "a2", protocol |-> "erc3009", payer |-> "0xP1", nonce |-> 2,
     token |-> "0xusdc", amount |-> 10000, receiver |-> "payTo",
     validAfter |-> 0, validBefore |-> 2, deadline |-> 0, signer |-> "0xP1",
     payTo |-> "payTo", maxAmountRequired |-> 10000],
    [id |-> "a3", protocol |-> "permit2", payer |-> "0xP1", nonce |-> 3,
     token |-> "0xnewt", amount |-> 10000, receiver |-> "payTo",
     validAfter |-> 0, validBefore |-> 3, deadline |-> 2, signer |-> "0xP1",
     payTo |-> "payTo", maxAmountRequired |-> 10000],
    [id |-> "a4", protocol |-> "erc3009", payer |-> "0xP1", nonce |-> 4,
     token |-> "0xrogue", amount |-> 10000, receiver |-> "payTo",
     validAfter |-> 0, validBefore |-> 3, deadline |-> 0, signer |-> "0xP1",
     payTo |-> "payTo", maxAmountRequired |-> 10000] }

RequestIds == { r.id : r \in Requests }
Req(id) == CHOOSE r \in Requests : r.id = id

\* String.prototype.toLowerCase on the addresses of the model
toLowerCase(str) == IF str = "0xP1" THEN "0xp1" ELSE str

\* the replay key `${payer.toLowerCase()}:${nonce}`
NonceKey(payer, nonce) == <<toLowerCase(payer), nonce>>
KeyOf(id) == NonceKey(Req(id).payer, Req(id).nonce)

Tokens == { r.token : r \in Requests }

VARIABLES
  now,               \* Math.floor(Date.now() / 1000)
  pool,              \* database.ts: pool !== null (PostgreSQL in use)
  keyConfigured,     \* process.env.FACILITATOR_PRIVATE_KEY is set
  useFeeSplitter,    \* isFeeSplitterEnabled(chainId)
  SUPPORTED_TOKENS,  \* tokens.ts: symbol -> token record
  transactions,      \* x402_transactions / memoryStore.transactions, by id
  x402_nonces,       \* the x402_nonces table: key -> tx_hash
  memoryStoreNonces, \* database.ts memoryStore.nonces
  memoryNonces,      \* settlement service memoryNonces
  memoryLog,         \* settlement service memoryLog
  webhookEvents,     \* events handed to notifySettlementSuccess/Failed
  chainSpent,        \* authorizations whose on-chain nonce is consumed
  chainTx,           \* receipt status of each call's spend transaction
  bal,               \* on-chain token balance of the payer, per token
  credit,            \* tokens received on chain, per account and token
  allowance,         \* the payer's ERC-20 allowance to Permit2 covers any amount
  calls,             \* per request: handler position, locals, response
  feeIn,             \* input of the function applied under SpecFee, SpecUnit
  feeOut,            \* its output
  splitter,          \* the X402FeeSplitter contract and the token balances
  lock               \* fee-splitter.ts settlementLock and the queued functions

vars == <<now, pool, keyConfigured, useFeeSplitter, SUPPORTED_TOKENS,
          transactions, x402_nonces, memoryStoreNonces, memoryNonces,
          memoryLog, webhookEvents, chainSpent, chainTx, bal, credit,
          allowance, calls, feeIn, feeOut, splitter, lock>>

configVars == <<pool, keyConfigured, useFeeSplitter, allowance, splitter,
                lock>>
storeVars == <<transactions, x402_nonces, memoryStoreNonces, memoryNonces,
               memoryLog, webhookEvents>>
chainVars == <<chainSpent, chainTx, bal, credit>>
feeVars == <<feeIn, feeOut>>

\* ------------------------------------------------------ on-chain accounts
\* the accounts tokens arrive at: the witness receiver / authorization.to
\* (payTo), the endpoint wallet the splitter forwards to, and the treasury
Accounts == {"payTo", "recipient", "treasury"}

NoCredit == [a \in Accounts |-> [t \in Tokens |-> 0]]

\* the token transfer of the spend: permitWitnessTransferFrom with
\* { to: permit2Receiver, requestedAmount: amount } (settlePayment lines
\* 1196-1234), transferWithAuthorization(from, to, value) (erc3009.ts
\* lines 404-420)
transfer(cr, to, token, amount) ==
  [cr EXCEPT ![to][token] = @ + amount]

\* X402FeeSplitter.splitPayment: out of the splitter's balance the net
\* amount goes to the recipient and the fee, if any, to the treasury
splitPayment(cr, holder, token, amount, feeAmount) ==
  [cr EXCEPT ![holder][token] = @ - amount,
             !["recipient"][token] = @ + (amount - feeAmount),
             !["treasury"][token] = @ + feeAmount]

\* ------------------------------------------------------ token registry
NoToken == [address |-> "none", symbol |-> "none", feePercent |-> 0,
            feeExempt |-> FALSE]

\* the curated list (tokens.ts:57-150); the stablecoins USDT, DAI, USDbC
\* and VIRTUAL carry USDC's policy and cbBTC carries WETH's
CuratedTokens ==
  [s \in {"BACK", "USDC", "WETH"} |->
     CASE s = "BACK" -> [address |-> "0xback", symbol |-> "BACK",
                          feePercent |-> 0, feeExempt |-> TRUE]
       [] s = "USDC" -> [address |-> "0xusdc", symbol |-> "USDC",
                          feePercent |-> 10, feeExempt |-> FALSE]
       [] s = "WETH" -> [address |-> "0xweth", symbol |-> "WETH",
                          feePercent |-> 25, feeExempt |-> FALSE]]

\* token records an administrator may hand to addSupportedToken
RuntimeTokens ==
  { [address |-> "0xnewt", symbol |-> "NEWT", feePercent |-> 1500,
     feeExempt |-> FALSE] }

getTokenByAddress(reg, address) ==
  LET hits == { s \in DOMAIN reg : reg[s].address = address }
  IN  IF hits = {} THEN NoToken ELSE reg[CHOOSE s \in hits : TRUE]

isTokenWhitelisted(reg, address) == getTokenByAddress(reg, address) # NoToken

\* getTokenFeePercent without the feeExempt test
getTokenFeePercent_IgnoresExempt(reg, address) ==
  LET token == getTokenByAddress(reg, address)
  IN  IF token = NoToken THEN -1
      ELSE IF token.feePercent = 0 THEN 10 ELSE token.feePercent

getTokenFeePercent(reg, address) ==
  LET token == getTokenByAddress(reg, address)
  IN  IF token = NoToken THEN -1
      ELSE IF token.feeExempt THEN 0
      ELSE IF token.feePercent = 0 THEN 10 ELSE token.feePercent

\* Math.floor(feePercent * 100) in IEEE-754 doubles: for these hundredths h
\* of a percent, up to 15%, the product (h/100)*100 is the double just below
\* h, so the floor is h-1 (0.29 * 100 = 28.999999999999996); for every
\* other h in 0..1500 the floor is h.
LossyHundredths ==
  {29, 57, 58, 113, 114, 115, 116, 201, 203, 205, 207, 226, 228, 230,
   232, 251, 253, 255, 402, 406, 410, 414, 427, 431, 435, 439, 452, 456,
   460, 464, 477, 481, 485, 489, 502, 506, 510, 803, 804, 812, 820, 828,
   829, 837, 845, 853, 854, 862, 870, 878, 879, 887, 895, 903, 904, 912,
   920, 928, 929, 937, 945, 953, 954, 962, 970, 978, 979, 987, 995,
   1003, 1004, 1012, 1020}

basisPoints(feePercent) ==
  IF feePercent \in LossyHundredths THEN feePercent - 1 ELSE feePercent

calculateFeeAmount(amount, feePercent) ==
  IF feePercent <= 0 THEN 0
  ELSE (amount * basisPoints(feePercent)) \div 10000

\* calculateNetAmount scaling the amount by the complement of the fee
\* instead of subtracting the fee
calculateNetAmount_Rescaled(amount, feePercent) ==
  IF feePercent <= 0 THEN amount
  ELSE (amount * (10000 - basisPoints(feePercent))) \div 10000

calculateNetAmount(amount, feePercent) ==
  amount - calculateFeeAmount(amount, feePercent)

addSupportedToken(reg, token) ==
  [s \in DOMAIN reg \cup {token.symbol} |->
     IF s = token.symbol THEN token ELSE reg[s]]

removeSupportedToken(reg, symbol) ==
  IF symbol = "BACK" \/ symbol \notin DOMAIN reg THEN reg
  ELSE [s \in DOMAIN reg \ {symbol} |-> reg[s]]

\* X402FeeSplitter: the cap on every fee the contract accepts
MAX_FEE_BPS == 1000

\* X402FeeSplitter: feeAmount = (amount * feeBps) / 10000 in uint256
splitPaymentFee(amount, feeBps) == (amount * feeBps) \div 10000

\* ------------------------------------------------ error messages and codes
\* settle route, mapSettleErrorToX402Code: `kw` is the set of marker words
\* that the lower-cased error message contains
mapSettleErrorToX402Code(kw) ==
  IF kw \cap {"insufficient", "balance"} # {} THEN "insufficient_funds"
  ELSE IF "nonce" \in kw THEN "nonce_already_used"
  ELSE IF kw \cap {"permit2", "allowance", "approval"} # {}
       THEN "permit2_allowance_required"
  ELSE IF kw \cap {"revert", "failed"} # {} THEN "transaction_reverted"
  ELSE IF "timeout" \in kw THEN "transaction_timeout"
  ELSE IF "signature" \in kw
       THEN "invalid_exact_evm_payload_signature_address"
  ELSE IF kw \cap {"deadline", "expired"} # {}
       THEN "invalid_exact_evm_payload_authorization_valid_before"
  ELSE IF kw \cap {"not configured", "facilitator"} # {}
       THEN "facilitator_not_configured"
  ELSE IF "network" \in kw THEN "invalid_network"
  ELSE "invalid_payload"

\* marker words of the messages of the RPC client (viem) and of the chain:
\* a revert or a rejected submission, and a wait that timed out
RevertMessages == { {}, {"revert"}, {"nonce"} }
TimeoutMessages == { {}, {"timeout"} }

\* ------------------------------------------------------------ verification
isDeadlineExpired(t, deadline) == t > deadline

isWithinValidityWindow(t, validAfter, validBefore) ==
  t >= validAfter /\ t < validBefore

\* utils/security validateAmount on a decimal integer string
validateAmount(amount) == amount >= 1

Valid(payer) == [isValid |-> TRUE, payer |-> payer, error |-> "", kw |-> {}]
Invalid(error, kw) ==
  [isValid |-> FALSE, payer |-> "", error |-> error, kw |-> kw]

\* services/signature verifySignature (Permit2); kw holds the marker words
\* of `${error} - ${details}`
verifySignature(r, reg, t) ==
  IF ~isTokenWhitelisted(reg, r.token) THEN Invalid("unsupported_token", {})
  ELSE IF isDeadlineExpired(t, r.deadline)
       THEN Invalid("deadline_expired", {"deadline", "expired"})
  ELSE IF ~isWithinValidityWindow(t, r.validAfter, r.validBefore)
       THEN Invalid("deadline_expired", {"deadline", "expired"})
  ELSE IF r.receiver # r.payTo THEN Invalid("invalid_receiver", {})
  ELSE IF ~validateAmount(r.amount) \/ ~validateAmount(r.maxAmountRequired)
       THEN Invalid("amount_mismatch", {})
  ELSE IF r.amount < r.maxAmountRequired THEN Invalid("amount_mismatch", {})
  ELSE Valid(r.signer)

\* services/erc3009 verifyErc3009Payment
verifyErc3009Payment(r, t) ==
  IF t < r.validAfter THEN Invalid("Authorization not yet valid", {})
  ELSE IF t >= r.validBefore
       THEN Invalid("Authorization expired", {"expired"})
  ELSE IF r.signer # r.payer THEN Invalid("Invalid signature", {"signature"})
  ELSE IF r.receiver # r.payTo THEN Invalid("Receiver mismatch", {})
  ELSE IF r.amount < r.maxAmountRequired
       THEN Invalid("Insufficient amount", {"insufficient"})
  ELSE Valid(r.signer)

\* ------------------------------------------------------------ replay store
\* a query on the pool succeeds (TRUE) or throws (FALSE); without a pool
\* the in-memory store is used and nothing throws
DbOutcomes(usePool) == IF usePool THEN BOOLEAN ELSE {TRUE}

\* isNonceUsed failing open: a query that throws reads as `not used`
dbIsNonceUsed_FailOpen(usePool, up, table, mem, key) ==
  IF usePool THEN (IF up THEN key \in DOMAIN table ELSE FALSE)
  ELSE key \in mem

\* database.ts isNonceUsed: fails safe (TRUE) when the query throws
dbIsNonceUsed(usePool, up, table, mem, key) ==
  IF usePool THEN (IF up THEN key \in DOMAIN table ELSE TRUE)
  ELSE key \in mem

\* checkNonceUsed that trusts the memory set alone
checkNonceUsed_CacheOnly(memSet, usePool, up, table, mem, key) ==
  key \in memSet

\* settlement service checkNonceUsed: the memory set first, then the store
checkNonceUsed(memSet, usePool, up, table, mem, key) ==
  IF key \in memSet THEN TRUE
  ELSE dbIsNonceUsed(usePool, up, table, mem, key)

\* INSERT ... ON CONFLICT (payer, nonce) DO UPDATE SET tx_hash = ...
insertNonce_Upsert(table, key, txHash) ==
  [k \in DOMAIN table \cup {key} |->
     IF k = key THEN txHash ELSE table[k]]

\* INSERT ... ON CONFLICT (payer, nonce) DO NOTHING
insertNonce(table, key, txHash) ==
  IF key \in DOMAIN table THEN table
  ELSE [k \in DOMAIN table \cup {key} |->
          IF k = key THEN txHash ELSE table[k]]

\* database.ts markNonceUsed throws exactly when the pool query throws
markNonceUsedThrows(usePool, up) == usePool /\ ~up

\* ---------------------------------------------------------------- audit log
NoTx == [status |-> "none"]

\* the UNIQUE(payer, nonce) constraint of x402_transactions
uniqueViolation(txs, payer, nonce) ==
  \E id \in DOMAIN txs :
     txs[id] # NoTx /\ txs[id].payer = payer /\ txs[id].nonce = nonce

\* database.ts createTransaction throws when the INSERT fails
createTransactionThrows(usePool, up, txs, payer, nonce) ==
  usePool /\ (~up \/ uniqueViolation(txs, toLowerCase(payer), nonce))

\* database.ts updateTransaction throws when the UPDATE fails
updateTransactionThrows(usePool, up) == usePool /\ ~up

newTransaction(r, payer, feePercent, feeAmount, protocol) ==
  [status |-> "pending", payer |-> toLowerCase(payer), nonce |-> r.nonce, req |-> r.id,
   amount |-> r.amount, fee |-> feeAmount, fee_percent |-> feePercent,
   tx_hash |-> 0, error_kw |-> {}, error_tx |-> 0, protocol |-> protocol]

\* ------------------------------------------------------------ the chain
\* whether the authorization spend of request r would succeed on-chain now:
\* Permit2 checks the nonce bitmap, the deadline, the allowance and the
\* balance; the ERC-3009 token checks its nonce, the window and the balance
spendWouldSucceed(r, spent, balance, allow, t) ==
  /\ r.id \notin spent
  /\ balance[r.token] >= r.amount
  /\ IF r.protocol = "permit2" THEN allow /\ t <= r.deadline
     ELSE t > r.validAfter /\ t < r.validBefore

\* balance.ts hasSufficientBalance / hasPermit2Approval
hasSufficientBalance(balance, r) == balance[r.token] >= r.amount
hasPermit2Approval(allow, r) == allow

\* fee basis points the splitter contract may hold for a token
SplitterFeeBps == {0, 10}

\* ------------------------------------------------------- request handlers
\* Besides its position (pc) and locals (payer, fee), a call keeps what the
\* properties need to remember: the service's result (svc: ok, fail or
\* throw), the marker words of its error (kw), the step that failed
\* (failedAt), whether it submitted a spend transaction, whether it began
\* after a successful settle (afterSuccess) or a valid verify (afterValid)
\* of the same authorization, and the settle calls of the same
\* authorization that were in flight when it began (peers), whether the
\* replay key was in a nonce store when the call set its audit record to
\* success (nonceAtSuccess), and whether the call itself wrote its key to a
\* nonce store (marked).
IdleCall ==
  [pc |-> "idle", kind |-> "none", req |-> "none", payer |-> "",
   svc |-> "none", kw |-> {}, failedAt |-> "", resp |-> [http |-> 0],
   submitted |-> FALSE, afterSuccess |-> FALSE, afterValid |-> FALSE,
   peers |-> {}, fee |-> 0, nonceAtSuccess |-> FALSE, marked |-> FALSE]

R(c) == Req(calls[c].req)

\* the replay key of a call's authorization is in a nonce store: the
\* x402_nonces table, memoryStore.nonces or the service's memoryNonces
InNonceStore(key) ==
  \/ key \in DOMAIN x402_nonces
  \/ key \in memoryStoreNonces
  \/ key \in memoryNonces

Goto(c, pc) == calls' = [calls EXCEPT ![c].pc = pc]

\* the verify route answers
VerifyAnswer(c, http, isValid, reason) ==
  calls' = [calls EXCEPT ![c].pc = "done",
                         ![c].resp = [http |-> http, isValid |-> isValid,
                                      reason |-> reason]]

\* settlePayment returns { success: false, error } and the settle route
\* answers 200 with the mapped reason (part_002 lines 117-127)
SettleFailure(rec, kw, stage) ==
  [rec EXCEPT !.pc = "done", !.svc = "fail", !.kw = kw, !.failedAt = stage,
              !.resp = [http |-> 200, success |-> FALSE,
                        errorReason |-> mapSettleErrorToX402Code(kw)]]

\* an exception leaves settlePayment; the route's catch answers 500
SettleException(rec, stage) ==
  [rec EXCEPT !.pc = "done", !.svc = "throw", !.failedAt = stage,
              !.resp = [http |-> 500, success |-> FALSE,
                        errorReason |-> "invalid_payload"]]

\* settlePayment returned success; the route builds its response from
\* payload.payload.authorization.permitted, which an ERC-3009 authorization
\* lacks: the TypeError is caught and answered 500 (part_002 lines 130, 159)
SettleSuccess(rec, protocol) ==
  IF protocol = "permit2"
  THEN [rec EXCEPT !.pc = "done", !.svc = "ok",
                   !.resp = [http |-> 200, success |-> TRUE,
                             errorReason |-> ""]]
  ELSE [rec EXCEPT !.pc = "done", !.svc = "ok",
                   !.resp = [http |-> 500, success |-> FALSE,
                             errorReason |-> "invalid_payload"]]

settledOk(id) ==
  \E d \in Calls : calls[d].kind = "settle" /\ calls[d].req = id
                   /\ calls[d].svc = "ok"
\* the settle calls carrying authorization id that are in flight
inFlight(id) ==
  { d \in Calls : calls[d].kind = "settle" /\ calls[d].req = id
                  /\ calls[d].pc # "done" }
verifiedValid(id) ==
  \E d \in Calls : calls[d].kind = "verify" /\ calls[d].req = id
                   /\ calls[d].pc = "done" /\ calls[d].resp.isValid

\* a request arrives: POST /verify or POST /settle with one of the payloads
Start(c) ==
  /\ calls[c].pc = "idle"
  /\ \A d \in Calls : d < c => calls[d].pc # "idle"
  /\ \E kind \in {"verify", "settle"}, id \in RequestIds :
       calls' = [calls EXCEPT ![c] =
                   [IdleCall EXCEPT !.pc = IF kind = "verify" THEN "v_verify"
                                           ELSE "s_verify",
                                    !.kind = kind, !.req = id,
                                    !.afterSuccess = settledOk(id),
                                    !.peers = IF kind = "settle"
                                              THEN inFlight(id) ELSE {},
                                    !.afterValid = verifiedValid(id)]]
  /\ UNCHANGED <<now, configVars, SUPPORTED_TOKENS, storeVars,
                 chainVars, feeVars>>

\* --------------------------------------------------------- POST /verify
\* part_003 lines 105-192: the structural checks pass for every request of
\* Requests; verifyErc3009Payment or verifySignature decides
Verify_Signature(c) ==
  /\ calls[c].pc = "v_verify"
  /\ LET r == R(c)
         res == IF r.protocol = "erc3009" THEN verifyErc3009Payment(r, now)
                ELSE verifySignature(r, SUPPORTED_TOKENS, now)
     IN  IF res.isValid
         THEN calls' = [calls EXCEPT ![c].pc = "v_nonce",
                                     ![c].payer = res.payer]
         ELSE VerifyAnswer(c, 200, FALSE, res.error)
  /\ UNCHANGED <<now, configVars, SUPPORTED_TOKENS, storeVars,
                 chainVars, feeVars>>

\* Verify_Nonce reserving the nonce it has just found unused
Verify_Nonce_Reserving(c) ==
  /\ calls[c].pc = "v_nonce"
  /\ \E up \in DbOutcomes(pool) :
       IF checkNonceUsed(memoryNonces, pool, up, x402_nonces,
                         memoryStoreNonces,
                         NonceKey(calls[c].payer, R(c).nonce))
       THEN /\ VerifyAnswer(c, 200, FALSE, "Nonce already used")
            /\ UNCHANGED memoryNonces
       ELSE /\ Goto(c, "v_funds")
            /\ memoryNonces' = memoryNonces
                                  \cup {NonceKey(calls[c].payer, R(c).nonce)}
  /\ UNCHANGED <<now, configVars, SUPPORTED_TOKENS, transactions,
                 x402_nonces, memoryStoreNonces, memoryLog, webhookEvents,
                 chainVars, feeVars>>

\* part_003 lines 144-151 and 199-206: isNonceUsed(payer, nonce) of the
\* settlement service, which is checkNonceUsed
Verify_Nonce(c) ==
  /\ calls[c].pc = "v_nonce"
  /\ \E up \in DbOutcomes(pool) :
       IF checkNonceUsed(memoryNonces, pool, up, x402_nonces,
                         memoryStoreNonces,
                         NonceKey(calls[c].payer, R(c).nonce))
       THEN VerifyAnswer(c, 200, FALSE, "Nonce already used")
       ELSE Goto(c, "v_funds")
  /\ UNCHANGED <<now, configVars, SUPPORTED_TOKENS, storeVars,
                 chainVars, feeVars>>

\* Verify_Readiness looking at the balance before the approval
Verify_Readiness_BalanceFirst(c) ==
  /\ calls[c].pc = "v_funds"
  /\ LET r == R(c)
     IN  IF ~hasSufficientBalance(bal, r)
         THEN VerifyAnswer(c, 200, FALSE, "Insufficient balance")
         ELSE IF r.protocol = "permit2" /\ ~hasPermit2Approval(allowance, r)
         THEN VerifyAnswer(c, 412, FALSE, "Permit2 approval required")
         ELSE VerifyAnswer(c, 200, TRUE, "")
  /\ UNCHANGED <<now, configVars, SUPPORTED_TOKENS, storeVars,
                 chainVars, feeVars>>

\* part_003 lines 154-161 and 209-269: checkPayerReadiness; the Permit2
\* path answers 412 without approval, before it looks at the balance
Verify_Readiness(c) ==
  /\ calls[c].pc = "v_funds"
  /\ LET r == R(c)
     IN  IF r.protocol = "permit2" /\ ~hasPermit2Approval(allowance, r)
         THEN VerifyAnswer(c, 412, FALSE, "Permit2 approval required")
         ELSE IF ~hasSufficientBalance(bal, r)
         THEN VerifyAnswer(c, 200, FALSE, "Insufficient balance")
         ELSE VerifyAnswer(c, 200, TRUE, "")
  /\ UNCHANGED <<now, configVars, SUPPORTED_TOKENS, storeVars,
                 chainVars, feeVars>>

VerifyStep(c) == Verify_Signature(c) \/ Verify_Nonce(c) \/ Verify_Readiness(c)

\* --------------------------------------------------------- POST /settle
\* settlePayment lines 1056-1082 (validateAmount, whitelist,
\* verifySignature) and settleErc3009 lines 1417-1423
Settle_Verify(c) ==
  /\ calls[c].pc = "s_verify"
  /\ LET r == R(c)
         res == IF r.protocol = "erc3009" THEN verifyErc3009Payment(r, now)
                ELSE verifySignature(r, SUPPORTED_TOKENS, now)
     IN  IF r.protocol = "permit2" /\ ~validateAmount(r.amount)
         THEN calls' = [calls EXCEPT ![c] = SettleFailure(@, {}, "verify")]
         ELSE IF r.protocol = "permit2"
                 /\ ~isTokenWhitelisted(SUPPORTED_TOKENS, r.token)
         THEN calls' = [calls EXCEPT ![c] = SettleFailure(@, {}, "verify")]
         ELSE IF ~res.isValid
         THEN calls' = [calls EXCEPT ![c] =
                          SettleFailure(@, res.kw \cup {"failed"}, "verify")]
         ELSE calls' = [calls EXCEPT ![c].pc = "s_nonce",
                                     ![c].payer = res.payer]
  /\ UNCHANGED <<now, configVars, SUPPORTED_TOKENS, storeVars,
                 chainVars, feeVars>>

\* Settle_CheckNonce looking the nonce up under the payer as received,
\* without toLowerCase(), so that the lookup misses the recorded key
Settle_CheckNonce_RawPayer(c) ==
  /\ calls[c].pc = "s_nonce"
  /\ \E up \in DbOutcomes(pool) :
       IF checkNonceUsed(memoryNonces, pool, up, x402_nonces,
                         memoryStoreNonces,
                         <<calls[c].payer, R(c).nonce>>)
       THEN calls' = [calls EXCEPT ![c] = SettleFailure(@, {"nonce"}, "nonce")]
       ELSE Goto(c, IF R(c).protocol = "permit2" THEN "s_funds"
                    ELSE "s_create")
  /\ UNCHANGED <<now, configVars, SUPPORTED_TOKENS, storeVars,
                 chainVars, feeVars>>

\* settlePayment lines 1084-1091, settleErc3009 lines 1425-1432
Settle_CheckNonce(c) ==
  /\ calls[c].pc = "s_nonce"
  /\ \E up \in DbOutcomes(pool) :
       IF checkNonceUsed(memoryNonces, pool, up, x402_nonces,
                         memoryStoreNonces,
                         NonceKey(calls[c].payer, R(c).nonce))
       THEN calls' = [calls EXCEPT ![c] = SettleFailure(@, {"nonce"}, "nonce")]
       ELSE Goto(c, IF R(c).protocol = "permit2" THEN "s_funds"
                    ELSE "s_create")
  /\ UNCHANGED <<now, configVars, SUPPORTED_TOKENS, storeVars,
                 chainVars, feeVars>>

\* settlePayment lines 1093-1109 (Permit2 only)
Settle_CheckFunds(c) ==
  /\ calls[c].pc = "s_funds"
  /\ IF ~hasSufficientBalance(bal, R(c))
     THEN calls' = [calls EXCEPT ![c] =
                      SettleFailure(@, {"insufficient", "balance"}, "funds")]
     ELSE IF ~hasPermit2Approval(allowance, R(c))
     THEN calls' = [calls EXCEPT ![c] =
                      SettleFailure(@, {"permit2"}, "funds")]
     ELSE Goto(c, "s_create")
  /\ UNCHANGED <<now, configVars, SUPPORTED_TOKENS, storeVars,
                 chainVars, feeVars>>

\* Settle_CreateTransaction that answers a failed INSERT by keeping the
\* record in memory as failed, and carries on to the spend
Settle_CreateTransaction_BestEffort(c) ==
  /\ calls[c].pc = "s_create"
  /\ \E up \in DbOutcomes(pool) :
     LET r == R(c)
         feePercent == getTokenFeePercent(SUPPORTED_TOKENS, r.token)
         feeAmount == calculateFeeAmount(r.amount, feePercent)
     IN  /\ transactions' =
              IF createTransactionThrows(pool, up, transactions,
                                         calls[c].payer, r.nonce)
              THEN [transactions EXCEPT ![c] =
                      [newTransaction(r, calls[c].payer, feePercent,
                                      feeAmount, r.protocol)
                         EXCEPT !.status = "failed"]]
              ELSE [transactions EXCEPT ![c] =
                      newTransaction(r, calls[c].payer, feePercent, feeAmount,
                                     r.protocol)]
         /\ calls' = [calls EXCEPT ![c].pc = "s_key", ![c].fee = feeAmount]
  /\ UNCHANGED <<now, configVars, SUPPORTED_TOKENS, x402_nonces,
                 memoryStoreNonces, memoryNonces, memoryLog, webhookEvents,
                 chainVars, feeVars>>

\* settlePayment lines 1111-1131, settleErc3009 lines 1434-1454: the fee
\* and the pending audit record; a failed INSERT throws out of the service
Settle_CreateTransaction(c) ==
  /\ calls[c].pc = "s_create"
  /\ \E up \in DbOutcomes(pool) :
     LET r == R(c)
         feePercent == getTokenFeePercent(SUPPORTED_TOKENS, r.token)
         feeAmount == calculateFeeAmount(r.amount, feePercent)
     IN  IF createTransactionThrows(pool, up, transactions,
                                    calls[c].payer, r.nonce)
         THEN /\ calls' = [calls EXCEPT ![c] = SettleException(@, "create")]
              /\ UNCHANGED transactions
         ELSE /\ transactions' =
                   [transactions EXCEPT ![c] =
                      newTransaction(r, calls[c].payer, feePercent, feeAmount,
                                     r.protocol)]
              /\ calls' = [calls EXCEPT ![c].pc = "s_key",
                                        ![c].fee = feeAmount]
  /\ UNCHANGED <<now, configVars, SUPPORTED_TOKENS, x402_nonces,
                 memoryStoreNonces, memoryNonces, memoryLog, webhookEvents,
                 chainVars, feeVars>>

\* A failure after the audit record was opened: updateTransaction(failed),
\* then (when `notify`) notifySettlementFailed, then the failure result.
\* When the UPDATE throws, the exception leaves the service instead.
FailRecorded(c, storedKw, returnedKw, stage, notify) ==
  \E up \in DbOutcomes(pool) :
  IF updateTransactionThrows(pool, up)
  THEN /\ calls' = [calls EXCEPT ![c] = SettleException(@, stage)]
       /\ UNCHANGED <<transactions, webhookEvents>>
  ELSE /\ transactions' = [transactions EXCEPT ![c].status = "failed",
                                               ![c].error_kw = storedKw]
       /\ webhookEvents' =
            IF notify
            THEN webhookEvents \cup
                   {[event |-> "settlement.failed", tx |-> c,
                     fee |-> transactions[c].fee]}
            ELSE webhookEvents
       /\ calls' = [calls EXCEPT ![c] = SettleFailure(@, returnedKw, stage)]

\* settlePayment lines 1133-1142 and settleErc3009Payment lines 344-347:
\* without a facilitator key the record is failed (the ERC-3009 path also
\* notifies, through settleErc3009 lines 1461-1476)
Settle_FacilitatorKey(c) ==
  /\ calls[c].pc = "s_key"
  /\ IF keyConfigured
     THEN /\ Goto(c, "s_simulate")
          /\ UNCHANGED <<transactions, webhookEvents>>
     ELSE FailRecorded(c, {"not configured", "facilitator"},
                       {"not configured", "facilitator"}, "key",
                       R(c).protocol = "erc3009")
  /\ UNCHANGED <<now, configVars, SUPPORTED_TOKENS, x402_nonces,
                 memoryStoreNonces, memoryNonces, memoryLog, chainVars,
                 feeVars>>

\* the catch of settlePayment lines 1235-1257 (`Permit2 transaction failed:
\* ${errorMsg}`), and for ERC-3009 `Simulation failed: ${message}`
\* (erc3009.ts lines 396-402) or the bare message (lines 443-449)
SpendError(c, m, stage) ==
  IF R(c).protocol = "permit2"
  THEN FailRecorded(c, m, m \cup {"permit2", "failed"}, stage, TRUE)
  ELSE IF stage = "simulate"
  THEN FailRecorded(c, m \cup {"failed"}, m \cup {"failed"}, stage, TRUE)
  ELSE FailRecorded(c, m, m, stage, TRUE)

\* simulateContract: settlePayment lines 1197-1215, erc3009.ts lines 378-402
Settle_Simulate(c) ==
  /\ calls[c].pc = "s_simulate"
  /\ \/ /\ spendWouldSucceed(R(c), chainSpent, bal, allowance, now)
        /\ Goto(c, "s_submit")
        /\ UNCHANGED <<transactions, webhookEvents>>
     \/ \E m \in RevertMessages : SpendError(c, m, "simulate")
  /\ UNCHANGED <<now, configVars, SUPPORTED_TOKENS, x402_nonces,
                 memoryStoreNonces, memoryNonces, memoryLog, chainVars,
                 feeVars>>

\* Settle_Submit inside a retry loop around the spend: after a failed
\* writeContract the call simulates and submits again
Settle_Submit_Retry(c) ==
  /\ calls[c].pc = "s_submit"
  /\ \/ /\ Goto(c, "s_simulate")
        /\ UNCHANGED <<chainVars, transactions>>
     \/ /\ LET r == R(c)
               ok == spendWouldSucceed(r, chainSpent, bal, allowance, now)
           IN  /\ chainTx' = [chainTx EXCEPT ![c] =
                                IF ok THEN "success" ELSE "reverted"]
               /\ chainSpent' = IF ok THEN chainSpent \cup {r.id}
                                ELSE chainSpent
               /\ bal' = IF ok THEN [bal EXCEPT ![r.token] = @ - r.amount]
                         ELSE bal
               /\ credit' = IF ok THEN transfer(credit, r.receiver, r.token,
                                                r.amount)
                            ELSE credit
        /\ calls' = [calls EXCEPT ![c].pc = "s_wait", ![c].submitted = TRUE]
        /\ transactions' = IF R(c).protocol = "permit2"
                           THEN [transactions EXCEPT ![c].tx_hash = c]
                           ELSE transactions
  /\ UNCHANGED <<now, configVars, SUPPORTED_TOKENS, x402_nonces,
                 memoryStoreNonces, memoryNonces, memoryLog, webhookEvents,
                 feeVars>>

\* writeContract: settlePayment lines 1217-1261, erc3009.ts lines 404-422.
\* The transaction is mined with the outcome the chain state gives it; the
\* Permit2 path then stores its hash in the audit record.
Settle_Submit(c) ==
  /\ calls[c].pc = "s_submit"
  /\ \/ /\ \E m \in RevertMessages : SpendError(c, m, "submit")
        /\ UNCHANGED chainVars
     \/ /\ LET r == R(c)
               ok == spendWouldSucceed(r, chainSpent, bal, allowance, now)
           IN  /\ chainTx' = [chainTx EXCEPT ![c] =
                                IF ok THEN "success" ELSE "reverted"]
               /\ chainSpent' = IF ok THEN chainSpent \cup {r.id}
                                ELSE chainSpent
               /\ bal' = IF ok THEN [bal EXCEPT ![r.token] = @ - r.amount]
                         ELSE bal
               /\ credit' = IF ok THEN transfer(credit, r.receiver, r.token,
                                                r.amount)
                            ELSE credit
        /\ \E up \in DbOutcomes(pool) :
           IF R(c).protocol = "permit2"
           THEN IF updateTransactionThrows(pool, up)
                THEN /\ calls' = [calls EXCEPT ![c] =
                            SettleException([@ EXCEPT !.submitted = TRUE],
                                            "submit")]
                     /\ UNCHANGED transactions
                ELSE /\ transactions' =
                          [transactions EXCEPT ![c].tx_hash = c]
                     /\ calls' = [calls EXCEPT ![c].pc = "s_wait",
                                               ![c].submitted = TRUE]
           ELSE /\ calls' = [calls EXCEPT ![c].pc = "s_wait",
                                          ![c].submitted = TRUE]
                /\ UNCHANGED transactions
        /\ UNCHANGED webhookEvents
  /\ UNCHANGED <<now, configVars, SUPPORTED_TOKENS, x402_nonces,
                 memoryStoreNonces, memoryNonces, memoryLog, feeVars>>

\* Settle_WaitReceipt without the `receipt.status !== 'success'` branch
Settle_WaitReceipt_IgnoresStatus(c) ==
  /\ calls[c].pc = "s_wait"
  /\ \/ /\ chainTx[c] \in {"success", "reverted"}
        /\ Goto(c, IF R(c).protocol = "permit2" /\ useFeeSplitter
                   THEN "s_split" ELSE "s_success")
        /\ UNCHANGED <<transactions, webhookEvents>>
     \/ IF R(c).protocol = "permit2"
        THEN /\ calls' = [calls EXCEPT ![c] = SettleException(@, "timeout")]
             /\ UNCHANGED <<transactions, webhookEvents>>
        ELSE \E m \in TimeoutMessages : FailRecorded(c, m, m, "timeout", TRUE)
  /\ UNCHANGED <<now, configVars, SUPPORTED_TOKENS, x402_nonces,
                 memoryStoreNonces, memoryNonces, memoryLog, chainVars,
                 feeVars>>

\* Settle_WaitReceipt taking a timed-out wait for a confirmation
Settle_WaitReceipt_TimeoutAsSuccess(c) ==
  /\ calls[c].pc = "s_wait"
  /\ \/ /\ chainTx[c] = "success"
        /\ Goto(c, IF R(c).protocol = "permit2" /\ useFeeSplitter
                   THEN "s_split" ELSE "s_success")
        /\ UNCHANGED <<transactions, webhookEvents>>
     \/ /\ chainTx[c] = "reverted"
        /\ IF R(c).protocol = "permit2"
           THEN FailRecorded(c, {"permit2", "revert"}, {"permit2", "revert"},
                             "wait", TRUE)
           ELSE FailRecorded(c, {"revert"}, {"revert"}, "wait", TRUE)
     \/ /\ calls' = [calls EXCEPT ![c].pc = "s_success",
                                  ![c].failedAt = "timeout"]
        /\ UNCHANGED <<transactions, webhookEvents>>
  /\ UNCHANGED <<now, configVars, SUPPORTED_TOKENS, x402_nonces,
                 memoryStoreNonces, memoryNonces, memoryLog, chainVars,
                 feeVars>>

\* waitForTransactionReceipt: settlePayment lines 1263-1289 (a timeout
\* throws out of settlePayment), erc3009.ts lines 424-449 (a timeout is
\* caught and returned as a failure)
Settle_WaitReceipt(c) ==
  /\ calls[c].pc = "s_wait"
  /\ \/ /\ chainTx[c] = "success"
        /\ Goto(c, IF R(c).protocol = "permit2" /\ useFeeSplitter
                   THEN "s_split" ELSE "s_success")
        /\ UNCHANGED <<transactions, webhookEvents>>
     \/ /\ chainTx[c] = "reverted"
        /\ IF R(c).protocol = "permit2"
           THEN FailRecorded(c, {"permit2", "revert"}, {"permit2", "revert"},
                             "wait", TRUE)
           ELSE FailRecorded(c, {"revert"}, {"revert"}, "wait", TRUE)
     \/ IF R(c).protocol = "permit2"
        THEN /\ calls' = [calls EXCEPT ![c] = SettleException(@, "timeout")]
             /\ UNCHANGED <<transactions, webhookEvents>>
        ELSE \E m \in TimeoutMessages : FailRecorded(c, m, m, "timeout", TRUE)
  /\ UNCHANGED <<now, configVars, SUPPORTED_TOKENS, x402_nonces,
                 memoryStoreNonces, memoryNonces, memoryLog, chainVars,
                 feeVars>>

\* Settle_Split storing the reason of the notification
\* (`splitPayment failed after Permit2. Recovery needed. ...`), which does
\* not carry the hash of the spend
Settle_Split_ReasonWithoutHash(c) ==
  /\ calls[c].pc = "s_split"
  /\ \/ /\ \E up \in DbOutcomes(pool) :
           IF updateTransactionThrows(pool, up)
           THEN /\ calls' = [calls EXCEPT ![c] = SettleException(@, "split")]
                /\ UNCHANGED <<transactions, webhookEvents>>
           ELSE /\ transactions' =
                     [transactions EXCEPT ![c].status = "failed",
                                          ![c].error_kw = {"failed", "permit2"},
                                          ![c].error_tx = 0]
                /\ webhookEvents' = webhookEvents \cup
                     {[event |-> "settlement.failed", tx |-> c,
                       fee |-> transactions[c].fee]}
                /\ calls' = [calls EXCEPT ![c] =
                     SettleFailure(@, {"failed", "permit2"}, "split")]
        /\ UNCHANGED credit
     \/ /\ \E feeBps \in SplitterFeeBps :
             LET splitFee == splitPaymentFee(R(c).amount, feeBps)
             IN  /\ calls' = [calls EXCEPT
                               ![c].pc = "s_success",
                               ![c].fee = IF splitFee = 0 THEN @
                                          ELSE splitFee]
                 /\ credit' = splitPayment(credit, R(c).receiver, R(c).token,
                                           R(c).amount, splitFee)
        /\ UNCHANGED <<transactions, webhookEvents>>
  /\ UNCHANGED <<now, configVars, SUPPORTED_TOKENS, x402_nonces,
                 memoryStoreNonces, memoryNonces, memoryLog, chainSpent,
                 chainTx, bal, feeVars>>

\* Settle_Split that records the nonce as used when the split fails (the
\* spend is confirmed by then)
Settle_Split_MarksNonce(c) ==
  /\ calls[c].pc = "s_split"
  /\ \/ /\ \E up \in DbOutcomes(pool) :
           IF updateTransactionThrows(pool, up)
           THEN /\ calls' = [calls EXCEPT ![c] = SettleException(@, "split")]
                /\ UNCHANGED <<transactions, webhookEvents, memoryNonces,
                               memoryStoreNonces>>
           ELSE /\ transactions' =
                     [transactions EXCEPT ![c].status = "failed",
                                          ![c].error_kw = {"failed", "permit2"},
                                          ![c].error_tx = c]
                /\ webhookEvents' = webhookEvents \cup
                     {[event |-> "settlement.failed", tx |-> c,
                       fee |-> transactions[c].fee]}
                /\ memoryNonces' = memoryNonces \cup
                     {NonceKey(calls[c].payer, R(c).nonce)}
                /\ memoryStoreNonces' = memoryStoreNonces \cup
                     {NonceKey(calls[c].payer, R(c).nonce)}
                /\ calls' = [calls EXCEPT ![c] =
                     SettleFailure([@ EXCEPT !.marked = TRUE],
                                   {"failed", "permit2"}, "split")]
        /\ UNCHANGED credit
     \/ /\ \E feeBps \in SplitterFeeBps :
             LET splitFee == splitPaymentFee(R(c).amount, feeBps)
             IN  /\ calls' = [calls EXCEPT
                               ![c].pc = "s_success",
                               ![c].fee = IF splitFee = 0 THEN @
                                          ELSE splitFee]
                 /\ credit' = splitPayment(credit, R(c).receiver, R(c).token,
                                           R(c).amount, splitFee)
        /\ UNCHANGED <<transactions, webhookEvents, memoryNonces,
                       memoryStoreNonces>>
  /\ UNCHANGED <<now, configVars, SUPPORTED_TOKENS, x402_nonces,
                 memoryLog, chainSpent, chainTx, bal, feeVars>>

\* settlePayment lines 1299-1347: executeSplitPayment (fee-splitter.ts)
\* either fails, leaving the funds in the splitter, or returns the fee the
\* contract took; actualFeeAmount = splitResult.feeAmount || feeAmount.
\* On failure the record is failed with a reason that ends in
\* `Permit2: ${transactionHash}` (error_tx), settlement.failed is notified
\* and the failure is returned; a throwing UPDATE leaves the service first.
Settle_Split(c) ==
  /\ calls[c].pc = "s_split"
  /\ \/ /\ \E up \in DbOutcomes(pool) :
           IF updateTransactionThrows(pool, up)
           THEN /\ calls' = [calls EXCEPT ![c] = SettleException(@, "split")]
                /\ UNCHANGED <<transactions, webhookEvents>>
           ELSE /\ transactions' =
                     [transactions EXCEPT ![c].status = "failed",
                                          ![c].error_kw = {"failed", "permit2"},
                                          ![c].error_tx = c]
                /\ webhookEvents' = webhookEvents \cup
                     {[event |-> "settlement.failed", tx |-> c,
                       fee |-> transactions[c].fee]}
                /\ calls' = [calls EXCEPT ![c] =
                     SettleFailure(@, {"failed", "permit2"}, "split")]
        /\ UNCHANGED credit
     \/ /\ \E feeBps \in SplitterFeeBps :
             LET splitFee == splitPaymentFee(R(c).amount, feeBps)
             IN  /\ calls' = [calls EXCEPT
                               ![c].pc = "s_success",
                               ![c].fee = IF splitFee = 0 THEN @
                                          ELSE splitFee]
                 /\ credit' = splitPayment(credit, R(c).receiver, R(c).token,
                                           R(c).amount, splitFee)
        /\ UNCHANGED <<transactions, webhookEvents>>
  /\ UNCHANGED <<now, configVars, SUPPORTED_TOKENS, x402_nonces,
                 memoryStoreNonces, memoryNonces, memoryLog, chainSpent,
                 chainTx, bal, feeVars>>

\* settlePayment line 1350, settleErc3009 lines 1479-1483:
\* updateTransaction(status: 'success')
Settle_MarkSuccess(c) ==
  /\ calls[c].pc = "s_success"
  /\ \E up \in DbOutcomes(pool) :
       IF updateTransactionThrows(pool, up)
       THEN /\ calls' = [calls EXCEPT ![c] = SettleException(@, "success")]
            /\ UNCHANGED transactions
       ELSE /\ transactions' = [transactions EXCEPT ![c].status = "success",
                                                    ![c].tx_hash = c]
            /\ calls' = [calls EXCEPT
                  ![c].pc = "s_record",
                  ![c].nonceAtSuccess =
                     InNonceStore(NonceKey(calls[c].payer, R(c).nonce))]
  /\ UNCHANGED <<now, configVars, SUPPORTED_TOKENS, x402_nonces,
                 memoryStoreNonces, memoryNonces, memoryLog, webhookEvents,
                 chainVars, feeVars>>

\* Settle_RecordNonce with a catch around recordNonceUsed that marks the
\* audit record failed
Settle_RecordNonce_FailOnThrow(c) ==
  /\ calls[c].pc = "s_record"
  /\ \E up \in DbOutcomes(pool) :
     LET key == NonceKey(calls[c].payer, R(c).nonce)
     IN  /\ memoryNonces' = memoryNonces \cup {key}
         /\ memoryStoreNonces' = memoryStoreNonces \cup {key}
         /\ IF markNonceUsedThrows(pool, up)
            THEN /\ calls' = [calls EXCEPT ![c] =
                                SettleFailure([@ EXCEPT !.marked = TRUE],
                                              {"failed"}, "record")]
                 /\ transactions' =
                      [transactions EXCEPT ![c].status = "failed"]
                 /\ UNCHANGED <<x402_nonces, memoryLog, webhookEvents>>
            ELSE /\ x402_nonces' = IF pool THEN insertNonce(x402_nonces, key, c)
                                   ELSE x402_nonces
                 /\ memoryLog' =
                      Append(memoryLog, [tx |-> c, fee |-> calls[c].fee])
                 /\ webhookEvents' = webhookEvents \cup
                      {[event |-> "settlement.success", tx |-> c,
                        fee |-> calls[c].fee]}
                 /\ calls' = [calls EXCEPT ![c] =
                      SettleSuccess([@ EXCEPT !.marked = TRUE],
                                    R(c).protocol)]
                 /\ UNCHANGED transactions
  /\ UNCHANGED <<now, configVars, SUPPORTED_TOKENS, chainVars, feeVars>>

\* settlePayment lines 1351-1396, settleErc3009 lines 1484-1516:
\* recordNonceUsed adds the key to memoryNonces and calls markNonceUsed,
\* which throws when the INSERT fails (after adding the key to
\* memoryStore.nonces); then the memory log, the success webhook, the
\* result and the route's response
Settle_RecordNonce(c) ==
  /\ calls[c].pc = "s_record"
  /\ \E up \in DbOutcomes(pool) :
     LET key == NonceKey(calls[c].payer, R(c).nonce)
     IN  /\ memoryNonces' = memoryNonces \cup {key}
         /\ memoryStoreNonces' = memoryStoreNonces \cup {key}
         /\ IF markNonceUsedThrows(pool, up)
            THEN /\ calls' = [calls EXCEPT ![c] =
                      SettleException([@ EXCEPT !.marked = TRUE], "record")]
                 /\ UNCHANGED <<x402_nonces, memoryLog, webhookEvents>>
            ELSE /\ x402_nonces' = IF pool THEN insertNonce(x402_nonces, key, c)
                                   ELSE x402_nonces
                 /\ memoryLog' =
                      Append(memoryLog, [tx |-> c, fee |-> calls[c].fee])
                 /\ webhookEvents' = webhookEvents \cup
                      {[event |-> "settlement.success", tx |-> c,
                        fee |-> calls[c].fee]}
                 /\ calls' = [calls EXCEPT ![c] =
                      SettleSuccess([@ EXCEPT !.marked = TRUE],
                                    R(c).protocol)]
  /\ UNCHANGED <<now, configVars, SUPPORTED_TOKENS, transactions, chainVars,
                 feeVars>>

SettleStep(c) ==
  \/ Settle_Verify(c)
  \/ Settle_CheckNonce(c)
  \/ Settle_CheckFunds(c)
  \/ Settle_CreateTransaction(c)
  \/ Settle_FacilitatorKey(c)
  \/ Settle_Simulate(c)
  \/ Settle_Submit(c)
  \/ Settle_WaitReceipt(c)
  \/ Settle_Split(c)
  \/ Settle_MarkSuccess(c)
  \/ Settle_RecordNonce(c)

\* ------------------------------------------------------------ environment
\* the clock advances
Tick ==
  /\ now < MaxNow
  /\ now' = now + 1
  /\ UNCHANGED <<configVars, SUPPORTED_TOKENS, storeVars, chainVars,
                 calls, feeVars>>

\* the payer moves the tokens elsewhere
PayerSpends ==
  /\ \E t \in Tokens : bal[t] > 0
  /\ bal' = [t \in Tokens |-> 0]
  /\ UNCHANGED <<now, configVars, SUPPORTED_TOKENS, storeVars,
                 chainSpent, chainTx, credit, calls, feeVars>>

\* tokens.ts addSupportedToken / removeSupportedToken called at runtime
AddSupportedToken ==
  /\ \E token \in RuntimeTokens :
       /\ getTokenByAddress(SUPPORTED_TOKENS, token.address) # token
       /\ SUPPORTED_TOKENS' = addSupportedToken(SUPPORTED_TOKENS, token)
  /\ UNCHANGED <<now, configVars, storeVars, chainVars, calls, feeVars>>

RemoveSupportedToken ==
  /\ \E symbol \in DOMAIN SUPPORTED_TOKENS \ DOMAIN CuratedTokens :
       SUPPORTED_TOKENS' = removeSupportedToken(SUPPORTED_TOKENS, symbol)
  /\ UNCHANGED <<now, configVars, storeVars, chainVars, calls, feeVars>>

\* ------------------------------------------- the X402FeeSplitter contract
\* number of transactions sent to the contract and its tokens
MaxTxs == 5

MIN_AMOUNT == 1

\* addresses: "zero" is address(0), "splitter" is address(this)
SplitTokens == {"0xusdc", "0xnewt"}
SplitAccounts == {"splitter", "recipient", "treasury"}
Senders == {"owner", "fac1", "other"}
FeeInputs == {0, 10, 1000, 1001}
SplitAmounts == {0, 10000}

NoCallResult == [fn |-> "none"]

\* the contract before its deployment
NoSplitter ==
  [deployed |-> FALSE, paused |-> FALSE, treasury |-> "zero",
   defaultFeeBps |-> 0,
   tokenFeeBps |-> [t \in SplitTokens |-> 0],
   tokenConfigured |-> [t \in SplitTokens |-> FALSE],
   authorizedFacilitators |-> {}, facilitatorCount |-> 0,
   whitelistMode |-> FALSE, tokenWhitelisted |-> {},
   maxSettlementAmount |-> 0,
   balanceOf |-> [a \in SplitAccounts |-> [t \in SplitTokens |-> 0]],
   revoked |-> {}, everPaused |-> FALSE, txs |-> 0, last |-> NoCallResult]

\* a transaction that reverts changes nothing but is remembered as the last
\* call; one that succeeds stores the new contract state
Reverted(fn, sender, err) ==
  splitter' = [splitter EXCEPT !.txs = @ + 1,
                 !.last = [fn |-> fn, sender |-> sender, ok |-> FALSE,
                           err |-> err]]
Succeeded(next, fn, sender) ==
  splitter' = [next EXCEPT !.txs = @ + 1,
                 !.last = [fn |-> fn, sender |-> sender, ok |-> TRUE,
                           err |-> ""]]

\* ERC-20 transfer between the accounts of the model (a transfer to an
\* account outside SplitAccounts only debits)
safeTransfer(balanceOf, from, to, token, amount) ==
  LET debited == [balanceOf EXCEPT ![from][token] = @ - amount]
  IN  IF to \in SplitAccounts
      THEN [debited EXCEPT ![to][token] = @ + amount]
      ELSE debited

\* getTokenFee: the fee configured for the token, else the default
getTokenFee(s, token) ==
  IF s.tokenConfigured[token] THEN s.tokenFeeBps[token] ELSE s.defaultFeeBps

\* splitPayment declared without the whenNotPaused modifier
splitPaymentError_NoPauseCheck(s, sender, token, recipient, amount) ==
  IF sender \notin s.authorizedFacilitators
       THEN "NotAuthorizedFacilitator"
  ELSE IF token = "zero" THEN "InvalidToken"
  ELSE IF recipient = "zero" \/ recipient = "splitter" THEN "InvalidRecipient"
  ELSE IF amount < MIN_AMOUNT THEN "InvalidAmount"
  ELSE IF s.whitelistMode /\ token \notin s.tokenWhitelisted
       THEN "TokenNotWhitelisted"
  ELSE IF s.maxSettlementAmount > 0 /\ amount > s.maxSettlementAmount
       THEN "AmountExceedsLimit"
  ELSE IF s.balanceOf["splitter"][token] < amount THEN "InsufficientBalance"
  ELSE ""

\* splitPayment that lets every token through, whatever the whitelist mode
splitPaymentError_NoWhitelist(s, sender, token, recipient, amount) ==
  IF s.paused THEN "EnforcedPause"
  ELSE IF sender \notin s.authorizedFacilitators
       THEN "NotAuthorizedFacilitator"
  ELSE IF token = "zero" THEN "InvalidToken"
  ELSE IF recipient = "zero" \/ recipient = "splitter" THEN "InvalidRecipient"
  ELSE IF amount < MIN_AMOUNT THEN "InvalidAmount"
  ELSE IF s.maxSettlementAmount > 0 /\ amount > s.maxSettlementAmount
       THEN "AmountExceedsLimit"
  ELSE IF s.balanceOf["splitter"][token] < amount THEN "InsufficientBalance"
  ELSE ""

\* the error splitPayment reverts with, "" when it goes through: the
\* modifiers whenNotPaused and onlyFacilitator, then the checks of lines
\* 187-200
splitPaymentError(s, sender, token, recipient, amount) ==
  IF s.paused THEN "EnforcedPause"
  ELSE IF sender \notin s.authorizedFacilitators
       THEN "NotAuthorizedFacilitator"
  ELSE IF token = "zero" THEN "InvalidToken"
  ELSE IF recipient = "zero" \/ recipient = "splitter" THEN "InvalidRecipient"
  ELSE IF amount < MIN_AMOUNT THEN "InvalidAmount"
  ELSE IF s.whitelistMode /\ token \notin s.tokenWhitelisted
       THEN "TokenNotWhitelisted"
  ELSE IF s.maxSettlementAmount > 0 /\ amount > s.maxSettlementAmount
       THEN "AmountExceedsLimit"
  ELSE IF s.balanceOf["splitter"][token] < amount THEN "InsufficientBalance"
  ELSE ""

\* the owner-only functions revert for every other sender (Ownable)
onlyOwner(sender) == sender = "owner"

\* constructor(_treasury, _defaultFeeBps, _initialFacilitator)
Splitter_Deploy ==
  /\ ~splitter.deployed
  /\ \E t \in {"treasury", "zero"}, f \in FeeInputs, ini \in {"zero", "fac1"} :
       IF t = "zero" THEN Reverted("constructor", "owner", "InvalidTreasury")
       ELSE IF f > MAX_FEE_BPS
       THEN Reverted("constructor", "owner", "FeeTooHigh")
       ELSE Succeeded([splitter EXCEPT
                         !.deployed = TRUE, !.treasury = t,
                         !.defaultFeeBps = f,
                         !.authorizedFacilitators =
                            IF ini = "zero" THEN {} ELSE {ini},
                         !.facilitatorCount = IF ini = "zero" THEN 0 ELSE 1],
                      "constructor", "owner")

\* the authorization spend pays `amount` of a token into the contract
Splitter_Fund ==
  /\ splitter.deployed
  /\ \E token \in SplitTokens :
       /\ splitter.balanceOf["splitter"][token] < 10000
       /\ Succeeded([splitter EXCEPT
                       !.balanceOf["splitter"][token] = @ + 10000],
                    "fund", "other")

\* Splitter_splitPayment without the onlyFacilitator modifier
Splitter_splitPayment_AnyCaller ==
  /\ splitter.deployed
  /\ \E sender \in {"fac1", "other"}, token \in SplitTokens \cup {"zero"},
        recipient \in {"recipient", "splitter", "zero"},
        amount \in SplitAmounts :
       LET err ==
             splitPaymentError(splitter, sender, token, recipient, amount)
           feeAmount == splitPaymentFee(amount, getTokenFee(splitter, token))
           netAmount == amount - feeAmount
           paid == safeTransfer(splitter.balanceOf, "splitter", recipient,
                                token, netAmount)
           split == IF feeAmount > 0
                    THEN safeTransfer(paid, "splitter", splitter.treasury,
                                      token, feeAmount)
                    ELSE paid
       IN  IF err \notin {"", "NotAuthorizedFacilitator"}
           THEN splitter' =
                  [splitter EXCEPT !.txs = @ + 1,
                     !.last = [fn |-> "splitPayment", sender |-> sender,
                               ok |-> FALSE, err |-> err, token |-> token,
                               recipient |-> recipient, amount |-> amount]]
           ELSE splitter' =
                  [splitter EXCEPT !.txs = @ + 1, !.balanceOf = split,
                     !.last = [fn |-> "splitPayment", sender |-> sender,
                               ok |-> TRUE, err |-> "", token |-> token,
                               recipient |-> recipient, amount |-> amount,
                               netAmount |-> netAmount,
                               feeAmount |-> feeAmount,
                               before |-> splitter.balanceOf]]

\* splitPayment(token, payer, recipient, amount), lines 181-225
Splitter_splitPayment ==
  /\ splitter.deployed
  /\ \E sender \in {"fac1", "other"}, token \in SplitTokens \cup {"zero"},
        recipient \in {"recipient", "splitter", "zero"},
        amount \in SplitAmounts :
       LET err ==
             splitPaymentError(splitter, sender, token, recipient, amount)
           feeAmount == splitPaymentFee(amount, getTokenFee(splitter, token))
           netAmount == amount - feeAmount
           paid == safeTransfer(splitter.balanceOf, "splitter", recipient,
                                token, netAmount)
           split == IF feeAmount > 0
                    THEN safeTransfer(paid, "splitter", splitter.treasury,
                                      token, feeAmount)
                    ELSE paid
       IN  IF err # ""
           THEN splitter' =
                  [splitter EXCEPT !.txs = @ + 1,
                     !.last = [fn |-> "splitPayment", sender |-> sender,
                               ok |-> FALSE, err |-> err, token |-> token,
                               recipient |-> recipient, amount |-> amount]]
           ELSE splitter' =
                  [splitter EXCEPT !.txs = @ + 1, !.balanceOf = split,
                     !.last = [fn |-> "splitPayment", sender |-> sender,
                               ok |-> TRUE, err |-> "", token |-> token,
                               recipient |-> recipient, amount |-> amount,
                               netAmount |-> netAmount,
                               feeAmount |-> feeAmount,
                               before |-> splitter.balanceOf]]

\* setFacilitator(facilitator, authorized), lines 266-281
Splitter_setFacilitator ==
  /\ splitter.deployed
  /\ \E sender \in {"owner", "other"}, f \in {"fac1", "zero"},
        authorized \in BOOLEAN :
       IF ~onlyOwner(sender)
       THEN Reverted("setFacilitator", sender, "OwnableUnauthorizedAccount")
       ELSE IF f = "zero"
       THEN Reverted("setFacilitator", sender, "InvalidRecipient")
       ELSE IF (f \in splitter.authorizedFacilitators) = authorized
       THEN Succeeded(splitter, "setFacilitator", sender)
       ELSE Succeeded(
              [splitter EXCEPT
                 !.authorizedFacilitators =
                    IF authorized THEN @ \cup {f} ELSE @ \ {f},
                 !.facilitatorCount = IF authorized THEN @ + 1 ELSE @ - 1,
                 !.revoked = IF authorized THEN @ \ {f} ELSE @ \cup {f}],
              "setFacilitator", sender)

\* setTokenFee accepting every fee
Splitter_setTokenFee_NoCap ==
  /\ splitter.deployed
  /\ \E sender \in {"owner", "other"}, token \in SplitTokens,
        feeBps \in FeeInputs :
       IF ~onlyOwner(sender)
       THEN Reverted("setTokenFee", sender, "OwnableUnauthorizedAccount")
       ELSE Succeeded([splitter EXCEPT !.tokenFeeBps[token] = feeBps,
                                       !.tokenConfigured[token] = TRUE],
                      "setTokenFee", sender)

\* setTokenFee(token, feeBps), lines 292-299
Splitter_setTokenFee ==
  /\ splitter.deployed
  /\ \E sender \in {"owner", "other"}, token \in SplitTokens,
        feeBps \in FeeInputs :
       IF ~onlyOwner(sender)
       THEN Reverted("setTokenFee", sender, "OwnableUnauthorizedAccount")
       ELSE IF feeBps > MAX_FEE_BPS
       THEN Reverted("setTokenFee", sender, "FeeTooHigh")
       ELSE Succeeded([splitter EXCEPT !.tokenFeeBps[token] = feeBps,
                                       !.tokenConfigured[token] = TRUE],
                      "setTokenFee", sender)

\* the batches setTokenFeesBatch is called with: <<tokens, feesBps>>
FeeBatches ==
  { << <<"0xusdc", "0xnewt">>, <<10, 1000>> >>,
    << <<"0xusdc", "0xnewt">>, <<10, 1001>> >>,
    << <<"0xusdc", "0xnewt">>, <<1001, 10>> >>,
    << <<"0xusdc", "0xnewt">>, <<0>> >> }

\* the loop of setTokenFeesBatch from index i on: the state it ends in, or
\* "FeeTooHigh" when an entry is above the maximum (the whole call reverts)
RECURSIVE setTokenFeesLoop(_, _, _, _)
setTokenFeesLoop(s, tokens, feesBps, i) ==
  IF i > Len(tokens) THEN [ok |-> TRUE, state |-> s]
  ELSE IF feesBps[i] > MAX_FEE_BPS THEN [ok |-> FALSE, state |-> s]
  ELSE setTokenFeesLoop([s EXCEPT !.tokenFeeBps[tokens[i]] = feesBps[i],
                                  !.tokenConfigured[tokens[i]] = TRUE],
                        tokens, feesBps, i + 1)

\* setTokenFeesBatch(tokens, feesBps), lines 307-321
Splitter_setTokenFeesBatch ==
  /\ splitter.deployed
  /\ \E sender \in {"owner", "other"}, b \in FeeBatches :
       IF ~onlyOwner(sender)
       THEN Reverted("setTokenFeesBatch", sender, "OwnableUnauthorizedAccount")
       ELSE IF Len(b[1]) # Len(b[2])
       THEN Reverted("setTokenFeesBatch", sender, "LengthMismatch")
       ELSE LET res == setTokenFeesLoop(splitter, b[1], b[2], 1)
            IN  IF res.ok
                THEN Succeeded(res.state, "setTokenFeesBatch", sender)
                ELSE Reverted("setTokenFeesBatch", sender, "FeeTooHigh")

\* setDefaultFee(feeBps), lines 328-334
Splitter_setDefaultFee ==
  /\ splitter.deployed
  /\ \E sender \in {"owner", "other"}, feeBps \in FeeInputs :
       IF ~onlyOwner(sender)
       THEN Reverted("setDefaultFee", sender, "OwnableUnauthorizedAccount")
       ELSE IF feeBps > MAX_FEE_BPS
       THEN Reverted("setDefaultFee", sender, "FeeTooHigh")
       ELSE Succeeded([splitter EXCEPT !.defaultFeeBps = feeBps],
                      "setDefaultFee", sender)

\* setWhitelistMode(enabled), lines 345-348
Splitter_setWhitelistMode ==
  /\ splitter.deployed
  /\ \E sender \in {"owner", "other"}, enabled \in BOOLEAN :
       IF ~onlyOwner(sender)
       THEN Reverted("setWhitelistMode", sender, "OwnableUnauthorizedAccount")
       ELSE Succeeded([splitter EXCEPT !.whitelistMode = enabled],
                      "setWhitelistMode", sender)

\* setTokenWhitelisted(token, whitelisted), lines 355-358
Splitter_setTokenWhitelisted ==
  /\ splitter.deployed
  /\ \E sender \in {"owner", "other"}, token \in SplitTokens,
        whitelisted \in BOOLEAN :
       IF ~onlyOwner(sender)
       THEN Reverted("setTokenWhitelisted", sender,
                     "OwnableUnauthorizedAccount")
       ELSE Succeeded([splitter EXCEPT
                         !.tokenWhitelisted =
                            IF whitelisted THEN @ \cup {token}
                            ELSE @ \ {token}],
                      "setTokenWhitelisted", sender)

\* setTreasury(_treasury), lines 380-385
Splitter_setTreasury ==
  /\ splitter.deployed
  /\ \E sender \in {"owner", "other"}, t \in {"treasury", "splitter", "zero"} :
       IF ~onlyOwner(sender)
       THEN Reverted("setTreasury", sender, "OwnableUnauthorizedAccount")
       ELSE IF t = "zero"
       THEN Reverted("setTreasury", sender, "InvalidTreasury")
       ELSE Succeeded([splitter EXCEPT !.treasury = t], "setTreasury", sender)

\* setMaxSettlement(_maxAmount), lines 398-402
Splitter_setMaxSettlement ==
  /\ splitter.deployed
  /\ \E sender \in {"owner", "other"}, maxAmount \in {0, 5000} :
       IF ~onlyOwner(sender)
       THEN Reverted("setMaxSettlement", sender, "OwnableUnauthorizedAccount")
       ELSE Succeeded([splitter EXCEPT !.maxSettlementAmount = maxAmount],
                      "setMaxSettlement", sender)

\* pause(), lines 407-409 (Pausable._pause requires the contract not to be
\* paused)
Splitter_pause ==
  /\ splitter.deployed
  /\ \E sender \in {"owner", "other"} :
       IF ~onlyOwner(sender)
       THEN Reverted("pause", sender, "OwnableUnauthorizedAccount")
       ELSE IF splitter.paused
       THEN Reverted("pause", sender, "EnforcedPause")
       ELSE Succeeded([splitter EXCEPT !.paused = TRUE,
                                       !.everPaused = TRUE], "pause", sender)

\* unpause(), lines 414-416 (Pausable._unpause requires it to be paused)
Splitter_unpause ==
  /\ splitter.deployed
  /\ \E sender \in {"owner", "other"} :
       IF ~onlyOwner(sender)
       THEN Reverted("unpause", sender, "OwnableUnauthorizedAccount")
       ELSE IF ~splitter.paused
       THEN Reverted("unpause", sender, "ExpectedPause")
       ELSE Succeeded([splitter EXCEPT !.paused = FALSE], "unpause", sender)

\* emergencyWithdraw(token, amount), lines 424-430
Splitter_emergencyWithdraw ==
  /\ splitter.deployed
  /\ \E sender \in {"owner", "other"}, token \in SplitTokens :
       IF ~onlyOwner(sender)
       THEN Reverted("emergencyWithdraw", sender, "OwnableUnauthorizedAccount")
       ELSE LET balance == splitter.balanceOf["splitter"][token]
                withdrawAmount == IF 10000 > balance THEN balance ELSE 10000
            IN  Succeeded([splitter EXCEPT
                             !.balanceOf =
                                safeTransfer(@, "splitter", splitter.treasury,
                                             token, withdrawAmount)],
                          "emergencyWithdraw", sender)

\* ------------------------------------------------------ settlement mutex
\* fee-splitter.ts lines 111-123. Promise 0 is the initial
\* Promise.resolve(); promise k is the `next` created by the k-th call of
\* withSettlementLock, resolved by that call's `release`. A function is
\* waiting (prev.then(fn) registered), running, or settled: fulfilled,
\* rejected (its promise rejects) or threw (it throws before returning a
\* promise, which rejects the promise of prev.then(fn)).
MaxLockCalls == 4

LockFns == 1..MaxLockCalls

Settled == {"fulfilled", "rejected", "threw"}

\* the module state after `let settlementLock = Promise.resolve()`
NoLock ==
  [n |-> 0, settlementLock |-> 0, resolved |-> {0},
   prev |-> [k \in LockFns |-> 0],
   fn |-> [k \in LockFns |-> "none"],
   started |-> << >>]

LockUnchanged ==
  UNCHANGED <<now, pool, keyConfigured, useFeeSplitter, allowance, splitter,
              SUPPORTED_TOKENS, storeVars, chainVars, calls, feeVars>>

\* withSettlementLock without `settlementLock = next`: every call chains
\* on the promise that was there first
Lock_Call_NoChain ==
  /\ lock.n < MaxLockCalls
  /\ LET k == lock.n + 1
     IN  lock' = [lock EXCEPT !.n = k,
                              !.prev[k] = lock.settlementLock,
                              !.fn[k] = "waiting"]
  /\ LockUnchanged

\* withSettlementLock(fn), lines 117-123, up to its return: `next` is
\* created, `prev` is the promise stored in settlementLock, settlementLock
\* becomes `next`, and fn is registered on prev
Lock_Call ==
  /\ lock.n < MaxLockCalls
  /\ LET k == lock.n + 1
     IN  lock' = [lock EXCEPT !.n = k,
                              !.prev[k] = lock.settlementLock,
                              !.settlementLock = k,
                              !.fn[k] = "waiting"]
  /\ LockUnchanged

\* prev.then(fn): fn is called once prev is resolved
Lock_Start(k) ==
  /\ lock.fn[k] = "waiting"
  /\ lock.prev[k] \in lock.resolved
  /\ lock' = [lock EXCEPT !.fn[k] = "running",
                          !.started = Append(@, k)]
  /\ LockUnchanged

\* fn settles: its promise fulfils or rejects, or fn throws
Lock_Settle(k) ==
  /\ lock.fn[k] = "running"
  /\ \E outcome \in Settled : lock' = [lock EXCEPT !.fn[k] = outcome]
  /\ LockUnchanged

\* release only on fulfilment: .then(() => release()) in place of .finally
Lock_Release_OnFulfilment(k) ==
  /\ lock.fn[k] = "fulfilled"
  /\ k \notin lock.resolved
  /\ lock' = [lock EXCEPT !.resolved = @ \cup {k}]
  /\ LockUnchanged

\* .finally(() => release()): `next` is resolved whichever way fn settled
Lock_Release(k) ==
  /\ lock.fn[k] \in Settled
  /\ k \notin lock.resolved
  /\ lock' = [lock EXCEPT !.resolved = @ \cup {k}]
  /\ LockUnchanged

NextLock ==
  \/ Lock_Call
  \/ \E k \in LockFns : Lock_Start(k)
  \/ \E k \in LockFns : Lock_Settle(k)
  \/ \E k \in LockFns : Lock_Release(k)

\* one transaction to the contract or its tokens; the facilitator service
\* is idle meanwhile
SplitterTx(A) ==
  /\ splitter.txs < MaxTxs
  /\ A
  /\ UNCHANGED <<now, pool, keyConfigured, useFeeSplitter, allowance,
                 SUPPORTED_TOKENS, storeVars, chainVars, calls, feeVars, lock>>

NextSplitter ==
  \/ SplitterTx(Splitter_Deploy)
  \/ SplitterTx(Splitter_Fund)
  \/ SplitterTx(Splitter_splitPayment)
  \/ SplitterTx(Splitter_setFacilitator)
  \/ SplitterTx(Splitter_setTokenFee)
  \/ SplitterTx(Splitter_setTokenFeesBatch)
  \/ SplitterTx(Splitter_setDefaultFee)
  \/ SplitterTx(Splitter_setWhitelistMode)
  \/ SplitterTx(Splitter_setTokenWhitelisted)
  \/ SplitterTx(Splitter_setTreasury)
  \/ SplitterTx(Splitter_setMaxSettlement)
  \/ SplitterTx(Splitter_pause)
  \/ SplitterTx(Splitter_unpause)
  \/ SplitterTx(Splitter_emergencyWithdraw)

\* ------------------------------------------------------------ specification
\* deployments: <<facilitator key set, fee splitter enabled, payer has
\* approved Permit2>>
Deployments ==
  { <<TRUE, FALSE, TRUE>>, <<TRUE, TRUE, TRUE>>, <<FALSE, FALSE, TRUE>>,
    <<TRUE, FALSE, FALSE>> }

NoFeeIn == [amount |-> 0, feeBps |-> 0]
NoFeeOut == [helper |-> 0, contract |-> 0, done |-> FALSE]

Init ==
  /\ now = 1
  /\ pool \in BOOLEAN
  /\ \E d \in Deployments : /\ keyConfigured = d[1]
                           /\ useFeeSplitter = d[2]
                           /\ allowance = d[3]
  /\ SUPPORTED_TOKENS = CuratedTokens
  /\ transactions = [c \in Calls |-> NoTx]
  /\ x402_nonces = << >>
  /\ memoryStoreNonces = {}
  /\ memoryNonces = {}
  /\ memoryLog = << >>
  /\ webhookEvents = {}
  /\ chainSpent = {}
  /\ chainTx = [c \in Calls |-> "none"]
  /\ bal = [t \in Tokens |-> 40000]
  /\ credit = NoCredit
  /\ calls = [c \in Calls |-> IdleCall]
  /\ feeIn = NoFeeIn
  /\ feeOut = NoFeeOut
  /\ splitter = NoSplitter
  /\ lock = NoLock

Next ==
  \/ \E c \in Calls : Start(c)
  \/ \E c \in Calls : VerifyStep(c)
  \/ \E c \in Calls : SettleStep(c)
  \/ Tick
  \/ PayerSpends
  \/ AddSupportedToken
  \/ RemoveSupportedToken

Spec == Init /\ [][Next]_vars

\* ------------------------------------------- the fee helper, on its own
\* amounts the fee helper and the splitter contract are compared on
FeeAmounts == {1, 9999, 10000, 12345, 2000000}

\* the state around the fee computation is that of an idle facilitator
InitFee ==
  /\ now = 1
  /\ pool = FALSE
  /\ keyConfigured = TRUE
  /\ useFeeSplitter = TRUE
  /\ allowance = TRUE
  /\ SUPPORTED_TOKENS = CuratedTokens
  /\ transactions = [c \in Calls |-> NoTx]
  /\ x402_nonces = << >>
  /\ memoryStoreNonces = {}
  /\ memoryNonces = {}
  /\ memoryLog = << >>
  /\ webhookEvents = {}
  /\ chainSpent = {}
  /\ chainTx = [c \in Calls |-> "none"]
  /\ bal = [t \in Tokens |-> 40000]
  /\ credit = NoCredit
  /\ calls = [c \in Calls |-> IdleCall]
  /\ feeIn \in [amount : FeeAmounts, feeBps : 0..MAX_FEE_BPS]
  /\ feeOut = NoFeeOut
  /\ splitter = NoSplitter
  /\ lock = NoLock

\* calculateFeeAmount(amount, feeBps / 100) beside the contract's
\* calculateSplit(amount) under the same basis points
ComputeFee ==
  /\ ~feeOut.done
  /\ feeOut' = [helper |-> calculateFeeAmount(feeIn.amount, feeIn.feeBps),
                contract |-> splitPaymentFee(feeIn.amount, feeIn.feeBps),
                done |-> TRUE]
  /\ UNCHANGED <<now, configVars, SUPPORTED_TOKENS, storeVars, chainVars,
                 calls, feeIn>>

NextFee == ComputeFee

SpecFee == InitFee /\ [][NextFee]_vars

\* ------------------------------------------ the contract, on its own
\* the facilitator service is idle and the contract is not yet deployed
InitSplitter ==
  /\ now = 1
  /\ pool = FALSE
  /\ keyConfigured = TRUE
  /\ useFeeSplitter = TRUE
  /\ allowance = TRUE
  /\ SUPPORTED_TOKENS = CuratedTokens
  /\ transactions = [c \in Calls |-> NoTx]
  /\ x402_nonces = << >>
  /\ memoryStoreNonces = {}
  /\ memoryNonces = {}
  /\ memoryLog = << >>
  /\ webhookEvents = {}
  /\ chainSpent = {}
  /\ chainTx = [c \in Calls |-> "none"]
  /\ bal = [t \in Tokens |-> 40000]
  /\ credit = NoCredit
  /\ calls = [c \in Calls |-> IdleCall]
  /\ feeIn = NoFeeIn
  /\ feeOut = NoFeeOut
  /\ splitter = NoSplitter
  /\ lock = NoLock

SpecSplitter == InitSplitter /\ [][NextSplitter]_vars

\* the settlement mutex alone, on the state InitSplitter starts from
InitLock == InitSplitter

SpecLock == InitLock /\ [][NextLock]_vars

\* the event loop runs every ready callback, and the functions passed to
\* the lock settle
LockFairness ==
  \A k \in LockFns :
    /\ WF_vars(Lock_Start(k))
    /\ WF_vars(Lock_Settle(k))
    /\ WF_vars(Lock_Release(k))

SpecLockLive == InitLock /\ [][NextLock]_vars /\ LockFairness

\* ================================================================ claims

SettleDone(c) == calls[c].kind = "settle" /\ calls[c].pc = "done"

\* C1: for every authorization (payer, nonce), whatever the interleaving of
\* the settle calls carrying it, at most one of them returns success.
C1_AtMostOneSuccess ==
  \A c, d \in Calls :
    (c # d /\ SettleDone(c) /\ SettleDone(d) /\ calls[c].req = calls[d].req)
      => ~(calls[c].svc = "ok" /\ calls[d].svc = "ok")

\* two settle calls of one authorization both submitted their spend
\* transaction, and one of them returned success
C1_Witness ==
  \E c, d \in Calls :
    /\ c # d /\ SettleDone(c) /\ SettleDone(d)
    /\ calls[c].req = calls[d].req
    /\ calls[c].submitted /\ calls[d].submitted
    /\ calls[c].svc = "ok" /\ calls[c].resp.success

RaceSteps == {"nonce", "wait"}

\* C3 as stated: when two settle calls with identical payloads run
\* concurrently, exactly one returns success and the other returns a
\* failure whose reason is nonce_already_used or transaction_reverted
\* (checked where one call returned success and the other was stopped by
\* the nonce lookup or by the revert of its spend transaction).
C3_Original ==
  \A w, l \in Calls :
    (/\ SettleDone(w) /\ SettleDone(l)
     /\ w \in calls[l].peers \/ l \in calls[w].peers
     /\ calls[w].resp.success
     /\ calls[l].failedAt \in RaceSteps)
      => /\ ~calls[l].resp.success
         /\ calls[l].resp.errorReason
              \in {"nonce_already_used", "transaction_reverted"}

\* C4 as stated: in every reachable state, every transaction record with
\* status success has its (payer, nonce) in the nonce store.
C4_Original ==
  \A c \in Calls :
    transactions[c].status = "success"
      => InNonceStore(<<transactions[c].payer, transactions[c].nonce>>)

\* C5: the status of a transaction record only ever changes from pending to
\* success or from pending to failed; a record that is success or failed
\* never changes status again.
C5_StatusMonotone ==
  [][\A c \in Calls :
       (transactions[c] # NoTx
        /\ transactions'[c].status # transactions[c].status)
         => /\ transactions[c].status = "pending"
            /\ transactions'[c].status \in {"success", "failed"}]_vars

\* one record ended success and another ended failed
C5_Witness ==
  \E c, d \in Calls :
    /\ transactions[c].status = "success" /\ calls[c].pc = "done"
    /\ transactions[d].status = "failed" /\ calls[d].pc = "done"

\* reasons that tell of a malformed request, a bad signature or a wrong
\* scheme, network or version
StructuralReasons ==
  { "invalid_payload", "invalid_payment_requirements", "invalid_scheme",
    "invalid_network", "invalid_x402_version",
    "invalid_exact_evm_payload_signature_address" }

\* C6 as stated: if verify(p, r) is valid then settle(p, r) either succeeds
\* or fails with a funds-state or timing reason, never with a structural,
\* signature or scheme reason (checked on the settle calls whose spend was
\* confirmed on-chain and recorded).
C6_Original ==
  \A c \in Calls :
    (SettleDone(c) /\ calls[c].afterValid /\ calls[c].svc = "ok")
      => \/ calls[c].resp.success
         \/ calls[c].resp.errorReason \notin StructuralReasons

\* C7: a verify call never changes the nonce store, the audit log or the
\* token registry, whatever its result, also while settle calls run.
C7_VerifyFrame ==
  [][(\E c \in Calls : calls'[c].kind = "verify" /\ calls'[c] # calls[c])
       => UNCHANGED <<x402_nonces, memoryStoreNonces, memoryNonces,
                      transactions, memoryLog, SUPPORTED_TOKENS>>]_vars

\* a verify call has answered while a settle call, which had already
\* written its audit record, was still running
C7_Witness ==
  \E c, d \in Calls :
    /\ calls[c].kind = "verify" /\ calls[c].pc = "done"
    /\ calls[d].kind = "settle" /\ calls[d].pc # "done"
    /\ transactions[d].status = "pending"
    /\ c > d

C9_Original ==
  feeOut.done
    => /\ feeOut.helper = (feeIn.amount * feeIn.feeBps) \div 10000
       /\ feeOut.helper = feeOut.contract

\* the basis points that produced the fee of an audit record
appliedBps(tx) ==
  IF tx.fee_percent <= 0 THEN 0 ELSE basisPoints(tx.fee_percent)

\* C10 as stated: the fee basis points applied in a settlement are always
\* within [0, 1000], for every token record the registry can hold,
\* including tokens added at runtime.
C10_Original ==
  \A c \in Calls :
    transactions[c] # NoTx => appliedBps(transactions[c]) \in 0..MAX_FEE_BPS

\* ------------------------------------------ single functions, on their own
\* SpecUnit applies one function of the program to one input: feeIn holds
\* the input (its field `test` names the function), feeOut the result.

\* token records for addSupportedToken: any rate with either exempt flag
UnitTokens ==
  { [address |-> "0xtok", symbol |-> "TOK", feePercent |-> p, feeExempt |-> x]
      : p \in {0, 10, 25, 1000, 1500}, x \in BOOLEAN }

\* amounts the fee of a registered token is computed on
UnitAmounts == {1, 9999, 10000, 12345, 1000000}

UnitTokenFeeInputs ==
  { [test |-> "tokenFee", token |-> t, amount |-> a]
      : t \in UnitTokens, a \in UnitAmounts }

\* settlePayment lines 1111-1113 on a token registered by addSupportedToken:
\* getTokenFeePercent, then calculateFeeAmount
Unit_TokenFee ==
  /\ feeIn.test = "tokenFee"
  /\ ~feeOut.done
  /\ LET reg == addSupportedToken(CuratedTokens, feeIn.token)
         feePercent == getTokenFeePercent(reg, feeIn.token.address)
     IN  feeOut' = [feePercent |-> feePercent,
                    fee |-> calculateFeeAmount(feeIn.amount, feePercent),
                    done |-> TRUE]
  /\ UNCHANGED <<now, configVars, SUPPORTED_TOKENS, storeVars, chainVars,
                 calls, feeIn>>

\* the replay keys and the contents of the x402_nonces table the replay
\* store functions are applied to
UnitKeys == { NonceKey("0xP1", n) : n \in 1..2 }
UnitTables ==
  { << >> } \cup { [k \in K |-> 7] : K \in (SUBSET UnitKeys) \ {{}} }

UnitIsUsedInputs ==
  { [test |-> "isUsed", usePool |-> p, up |-> u, table |-> tb, mem |-> m,
     memSet |-> ms, key |-> k]
      : p \in BOOLEAN, u \in BOOLEAN, tb \in UnitTables,
        m \in SUBSET UnitKeys, ms \in SUBSET UnitKeys, k \in UnitKeys }

\* database.ts isNonceUsed (lines 378-396) and the settlement service's
\* checkNonceUsed (lines 1523-1533) on one store content and query outcome
Unit_IsUsed ==
  /\ feeIn.test = "isUsed"
  /\ ~feeOut.done
  /\ feeOut' = [isNonceUsed |->
                  dbIsNonceUsed(feeIn.usePool, feeIn.up, feeIn.table,
                                feeIn.mem, feeIn.key),
                checkNonceUsed |->
                  checkNonceUsed(feeIn.memSet, feeIn.usePool, feeIn.up,
                                 feeIn.table, feeIn.mem, feeIn.key),
                done |-> TRUE]
  /\ UNCHANGED <<now, configVars, SUPPORTED_TOKENS, storeVars, chainVars,
                 calls, feeIn>>

\* transaction hashes a nonce is recorded with (the tables hold hash 7)
UnitTxHashes == {7, 8}

UnitMarkUsedInputs ==
  { [test |-> "markUsed", usePool |-> p, up |-> u, table |-> tb, mem |-> m,
     payer |-> a, nonce |-> n, txHash |-> h]
      : p \in BOOLEAN, u \in BOOLEAN, tb \in UnitTables,
        m \in SUBSET UnitKeys, a \in {"0xP1", "0xp1"}, n \in 1..2,
        h \in UnitTxHashes }

\* database.ts markNonceUsed (lines 404-430) on one store content: the
\* INSERT when a pool is used, memoryStore.nonces.add(key) in every case,
\* and the re-thrown error when the INSERT fails
Unit_MarkUsed ==
  /\ feeIn.test = "markUsed"
  /\ ~feeOut.done
  /\ LET key == NonceKey(feeIn.payer, feeIn.nonce)
     IN  feeOut' = [table |-> IF feeIn.usePool /\ feeIn.up
                              THEN insertNonce(feeIn.table, key, feeIn.txHash)
                              ELSE feeIn.table,
                    mem |-> feeIn.mem \cup {key},
                    threw |-> markNonceUsedThrows(feeIn.usePool, feeIn.up),
                    done |-> TRUE]
  /\ UNCHANGED <<now, configVars, SUPPORTED_TOKENS, storeVars, chainVars,
                 calls, feeIn>>

\* the clock values and the validAfter, validBefore and deadline fields
\* (seconds) the time checks are applied to
UnitTimes == 0..3

UnitTimeInputs ==
  { [test |-> "time", protocol |-> p, validAfter |-> va, validBefore |-> vb,
     deadline |-> dl, now |-> t]
      : p \in {"permit2", "erc3009"}, va \in UnitTimes, vb \in UnitTimes,
        dl \in UnitTimes, t \in UnitTimes }

\* verifySignature (signature.ts lines 55-235) or verifyErc3009Payment
\* (erc3009.ts lines 253-324) on an authorization that is sound but for
\* its time fields, at clock feeIn.now
Unit_TimeCheck ==
  /\ feeIn.test = "time"
  /\ ~feeOut.done
  /\ LET base == IF feeIn.protocol = "permit2" THEN Req("a1") ELSE Req("a2")
         r == [base EXCEPT !.validAfter = feeIn.validAfter,
                           !.validBefore = feeIn.validBefore,
                           !.deadline = feeIn.deadline]
         res == IF feeIn.protocol = "permit2"
                THEN verifySignature(r, CuratedTokens, feeIn.now)
                ELSE verifyErc3009Payment(r, feeIn.now)
     IN  feeOut' = [isValid |-> res.isValid, error |-> res.error,
                    kw |-> res.kw, done |-> TRUE]
  /\ UNCHANGED <<now, configVars, SUPPORTED_TOKENS, storeVars, chainVars,
                 calls, feeIn>>

\* amount strings: the decimal texts of -1, 0, 1, 10000, 2^256 - 1 and
\* 2^256, and a text that is no integer
AmountStrings == {"-1", "0", "1", "10000", "2^256-1", "2^256", "1.5"}

\* /^-?\d+$/.test(amountStr)
isIntegerString(str) == str # "1.5"

\* BigInt(str) of an integer string. Only the order of the values matters
\* to the code below, so each value is represented by its position in
\* -1 < 0 < 1 < 10000 < 2^256 - 1 < 2^256.
BigInt(str) ==
  CASE str = "-1" -> -1
    [] str = "0" -> 0
    [] str = "1" -> 1
    [] str = "10000" -> 2
    [] str = "2^256-1" -> 3
    [] str = "2^256" -> 4

\* utils/security.ts validateAmount (lines 49-82) on the amount string
validateAmountString(str) ==
  IF ~isIntegerString(str) THEN FALSE
  ELSE IF BigInt(str) < 0 THEN FALSE
  ELSE IF BigInt(str) = 0 THEN FALSE
  ELSE IF BigInt(str) > BigInt("2^256-1") THEN FALSE
  ELSE TRUE

\* the amount checks of verifySignature (signature.ts lines 182-210)
permit2AmountOk(value, required) ==
  /\ validateAmountString(value)
  /\ validateAmountString(required)
  /\ BigInt(value) >= BigInt(required)

\* the amount's way through verifyErc3009Payment (erc3009.ts lines 253-324):
\* recoverErc3009Signer computes BigInt(authorization.value), which throws
\* on a text that is no integer, and hashes it as a uint256; what the
\* typed-data library does with a value outside uint256 is not in this
\* repository (libOk: it recovers the payer, or it throws or recovers
\* another address); then authAmount >= BigInt(maxAmountRequired), a throw
\* being caught as 'Verification failed'
erc3009AmountOk(value, required, libOk) ==
  IF ~isIntegerString(value) THEN FALSE
  ELSE IF (BigInt(value) < 0 \/ BigInt(value) > BigInt("2^256-1")) /\ ~libOk
       THEN FALSE
  ELSE IF ~isIntegerString(required) THEN FALSE
  ELSE BigInt(value) >= BigInt(required)

UnitAmountInputs ==
  { [test |-> "amount", protocol |-> p, value |-> v, required |-> q]
      : p \in {"permit2", "erc3009"}, v \in AmountStrings,
        q \in AmountStrings }

\* the amount checks of POST /verify and POST /settle on an authorization
\* that is sound but for its amount: verifySignature for Permit2 (settle
\* first runs validateAmount itself, settlePayment lines 1056-1063),
\* verifyErc3009Payment for ERC-3009 (settleErc3009 first computes
\* BigInt(authorization.value), line 1412)
Unit_Amount ==
  /\ feeIn.test = "amount"
  /\ ~feeOut.done
  /\ \E libOk \in BOOLEAN :
       LET ok == IF feeIn.protocol = "permit2"
                 THEN permit2AmountOk(feeIn.value, feeIn.required)
                 ELSE erc3009AmountOk(feeIn.value, feeIn.required, libOk)
       IN  feeOut' = [verify |-> ok,
                      settle |-> IF feeIn.protocol = "permit2"
                                 THEN validateAmountString(feeIn.value) /\ ok
                                 ELSE isIntegerString(feeIn.value) /\ ok,
                      done |-> TRUE]
  /\ UNCHANGED <<now, configVars, SUPPORTED_TOKENS, storeVars, chainVars,
                 calls, feeIn>>

\* the route of a settlement: whether the fee splitter is enabled for the
\* chain, the protocol of the payload, and requirements.payTo (which the
\* verified witness receiver / authorization.to equals), either the
\* splitter contract or a merchant wallet
UnitRouteInputs ==
  { [test |-> "route", enabled |-> en, protocol |-> p, payTo |-> to]
      : en \in BOOLEAN, p \in {"permit2", "erc3009"},
        to \in {"splitter", "payTo"} }

\* settlePayment lines 1165-1187 and 1299-1308: the spend goes to the
\* witness receiver, and splitPayment is called when
\* isFeeSplitterEnabled(chainId) and a splitter address is configured;
\* settleErc3009 (lines 1403-1517) never calls it
settlementRoute(enabled, protocol, receiver) ==
  [spendTo |-> receiver, split |-> enabled /\ protocol = "permit2"]

Unit_Route ==
  /\ feeIn.test = "route"
  /\ ~feeOut.done
  /\ LET route == settlementRoute(feeIn.enabled, feeIn.protocol, feeIn.payTo)
     IN  feeOut' = [spendTo |-> route.spendTo, split |-> route.split,
                    done |-> TRUE]
  /\ UNCHANGED <<now, configVars, SUPPORTED_TOKENS, storeVars, chainVars,
                 calls, feeIn>>

\* the number of writeContract outcomes an input of the retry loop lists
MaxOutcomes == 4

MAX_RETRIES == 3

\* what one writeContract of splitPayment does: it returns a hash ("ok") or
\* throws an error with one of these messages
SubmitOutcomes ==
  {"ok", "replacement transaction underpriced",
   "rpc error: nonce too low (next nonce 7)", "already known",
   "insufficient funds for gas", "execution reverted"}

\* the phrases of the retry test that a message contains
\* (String.prototype.includes)
phrasesIn(msg) ==
  CASE msg = "replacement transaction underpriced"
         -> {"replacement transaction underpriced"}
    [] msg = "rpc error: nonce too low (next nonce 7)" -> {"nonce too low"}
    [] msg = "already known" -> {"already known"}
    [] OTHER -> {}

\* isNonceError, executeSplitPayment lines 254-256
isNonceError(lastError) ==
  \/ "replacement transaction underpriced" \in phrasesIn(lastError)
  \/ "nonce too low" \in phrasesIn(lastError)
  \/ "already known" \in phrasesIn(lastError)

\* the retry loop that tries again after every error
RECURSIVE splitSubmitLoop_RetryAnyError(_, _)
splitSubmitLoop_RetryAnyError(outcomes, attempt) ==
  IF attempt >= MAX_RETRIES
  THEN [attempts |-> attempt, result |-> "no hash"]
  ELSE IF outcomes[attempt + 1] = "ok"
  THEN [attempts |-> attempt + 1, result |-> "submitted"]
  ELSE IF attempt >= MAX_RETRIES - 1
  THEN [attempts |-> attempt + 1, result |-> "thrown"]
  ELSE splitSubmitLoop_RetryAnyError(outcomes, attempt + 1)

\* the loop of executeSplitPayment lines 218-272, from iteration `attempt`
\* on: outcomes[k] is what the k-th writeContract does. A hash ends the loop
\* (break); an error that is no nonce error, or the error of the last
\* attempt, is rethrown; any other error is followed by a wait and the next
\* iteration. The result carries the number of writeContract calls made.
RECURSIVE splitSubmitLoop(_, _)
splitSubmitLoop(outcomes, attempt) ==
  IF attempt >= MAX_RETRIES
  THEN [attempts |-> attempt, result |-> "no hash"]
  ELSE IF outcomes[attempt + 1] = "ok"
  THEN [attempts |-> attempt + 1, result |-> "submitted"]
  ELSE IF ~isNonceError(outcomes[attempt + 1]) \/ attempt >= MAX_RETRIES - 1
  THEN [attempts |-> attempt + 1, result |-> "thrown"]
  ELSE splitSubmitLoop(outcomes, attempt + 1)

UnitRetryInputs ==
  { [test |-> "retry", outcomes |-> o]
      : o \in [1..MaxOutcomes -> SubmitOutcomes] }

Unit_SplitSubmit ==
  /\ feeIn.test = "retry"
  /\ ~feeOut.done
  /\ LET res == splitSubmitLoop(feeIn.outcomes, 0)
     IN  feeOut' = [attempts |-> res.attempts, result |-> res.result,
                    done |-> TRUE]
  /\ UNCHANGED <<now, configVars, SUPPORTED_TOKENS, storeVars, chainVars,
                 calls, feeIn>>

UnitInputs ==
  UnitRetryInputs \cup UnitTokenFeeInputs \cup UnitIsUsedInputs \cup UnitMarkUsedInputs
    \cup UnitTimeInputs \cup UnitAmountInputs \cup UnitRouteInputs

InitUnit ==
  /\ now = 1
  /\ pool = FALSE
  /\ keyConfigured = TRUE
  /\ useFeeSplitter = FALSE
  /\ allowance = TRUE
  /\ SUPPORTED_TOKENS = CuratedTokens
  /\ transactions = [c \in Calls |-> NoTx]
  /\ x402_nonces = << >>
  /\ memoryStoreNonces = {}
  /\ memoryNonces = {}
  /\ memoryLog = << >>
  /\ webhookEvents = {}
  /\ chainSpent = {}
  /\ chainTx = [c \in Calls |-> "none"]
  /\ bal = [t \in Tokens |-> 40000]
  /\ credit = NoCredit
  /\ calls = [c \in Calls |-> IdleCall]
  /\ feeIn \in UnitInputs
  /\ feeOut = [done |-> FALSE]
  /\ splitter = NoSplitter
  /\ lock = NoLock

NextUnit ==
  \/ Unit_TokenFee
  \/ Unit_IsUsed
  \/ Unit_MarkUsed
  \/ Unit_TimeCheck
  \/ Unit_Amount
  \/ Unit_Route
  \/ Unit_SplitSubmit

SpecUnit == InitUnit /\ [][NextUnit]_vars

\* C11: for every token with feeExempt = true and every amount, the computed
\* fee is 0, whatever fee rate is configured for that token.
C11_ExemptFeeZero ==
  (feeIn.test = "tokenFee" /\ feeOut.done /\ feeIn.token.feeExempt)
    => feeOut.fee = 0

\* the fee of an exempt token configured at 15% was computed, and is 0
C11_Witness ==
  /\ feeIn.test = "tokenFee" /\ feeOut.done
  /\ feeIn.token.feeExempt /\ feeIn.token.feePercent = 1500
  /\ feeIn.amount = 1000000
  /\ feeOut.fee = 0

\* the spend transactions mined with success on token t
minedOn(t) ==
  { d \in Calls : calls[d].kind = "settle" /\ chainTx[d] = "success"
                  /\ R(d).token = t }

\* C12: after a successful settlement of a non-exempt token without the fee
\* splitter, the receiver's balance has increased by amount - fee and the
\* treasury's by fee (here the settlement is the only spend mined on its
\* token, so the credits are those of this settlement).
C12_Original ==
  \A c \in Calls :
    (/\ SettleDone(c) /\ calls[c].svc = "ok"
     /\ ~useFeeSplitter
     /\ transactions[c].fee > 0
     /\ minedOn(R(c).token) = {c})
      => /\ credit[R(c).receiver][R(c).token]
              = R(c).amount - transactions[c].fee
         /\ credit["treasury"][R(c).token] = transactions[c].fee

\* the tokens that are in the curated registry at no time
NeverListed ==
  { t \in Tokens : /\ ~isTokenWhitelisted(CuratedTokens, t)
                   /\ \A k \in RuntimeTokens : k.address # t }

\* C13: a verify or settle call whose token is not in the curated registry
\* is rejected, for both authorization variants; the settle call fails
\* before it opens an audit record or submits anything.
C13_Original ==
  \A c \in Calls :
    (calls[c].pc = "done" /\ R(c).token \in NeverListed)
      => /\ calls[c].kind = "verify" => ~calls[c].resp.isValid
         /\ calls[c].kind = "settle"
              => /\ calls[c].svc # "ok"
                 /\ transactions[c] = NoTx
                 /\ ~calls[c].submitted

\* C14: if waiting for the spend transaction's confirmations exceeds the
\* settlement timeout, the settle call returns a failure result
\* (success = false).
C14_TimeoutFails ==
  \A c \in Calls :
    (SettleDone(c) /\ calls[c].failedAt = "timeout")
      => /\ calls[c].svc # "ok"
         /\ calls[c].resp.success = FALSE

\* a Permit2 settle call and an ERC-3009 settle call have both timed out
\* waiting for their submitted spend
C14_Witness ==
  \E c, d \in Calls :
    /\ SettleDone(c) /\ calls[c].failedAt = "timeout" /\ calls[c].submitted
    /\ R(c).protocol = "permit2" /\ calls[c].resp.http = 500
    /\ SettleDone(d) /\ calls[d].failedAt = "timeout" /\ calls[d].submitted
    /\ R(d).protocol = "erc3009" /\ calls[d].resp.http = 200

\* the spend of settle call c confirmed and its splitPayment call failed
splitFailed(c) ==
  /\ SettleDone(c) /\ calls[c].failedAt = "split" /\ chainTx[c] = "success"

\* the record of call c is failed with a reason naming the spend
\* transaction, and settlement.failed was emitted for it
failedWithSpendId(c) ==
  /\ transactions[c].status = "failed"
  /\ transactions[c].error_tx = transactions[c].tx_hash
  /\ transactions[c].tx_hash = c
  /\ \E ev \in webhookEvents : ev.event = "settlement.failed" /\ ev.tx = c

C16_Original ==
  \A c \in Calls :
    (SettleDone(c) /\ calls[c].svc = "fail" /\ transactions[c] # NoTx)
      => /\ transactions[c].status = "failed"
         /\ transactions[c].error_kw # {}
         /\ \E ev \in webhookEvents :
              ev.event = "settlement.failed" /\ ev.tx = c

\* C17: whenever the durable nonce store cannot be read (the query on the
\* pool throws), isUsed(payer, nonce) returns true, through isNonceUsed and
\* through checkNonceUsed.
C17_FailClosed ==
  (feeIn.test = "isUsed" /\ feeOut.done /\ feeIn.usePool /\ ~feeIn.up)
    => feeOut.isNonceUsed /\ feeOut.checkNonceUsed

\* the store could not be read for a key that no store holds, and the
\* answer was `used`
C17_Witness ==
  /\ feeIn.test = "isUsed" /\ feeOut.done
  /\ feeIn.usePool /\ ~feeIn.up
  /\ feeIn.table = << >> /\ feeIn.mem = {} /\ feeIn.memSet = {}
  /\ feeOut.isNonceUsed /\ feeOut.checkNonceUsed

\* C18: a (payer, nonce) is written to the nonce store at most once: a
\* markUsed leaves every record the store already holds, the one of its own
\* key included, unchanged with its transaction id, and adds at most the
\* record of its own key.
C18_WriteOnce ==
  (feeIn.test = "markUsed" /\ feeOut.done)
    => LET key == NonceKey(feeIn.payer, feeIn.nonce)
       IN  /\ \A k \in DOMAIN feeIn.table :
                k \in DOMAIN feeOut.table /\ feeOut.table[k] = feeIn.table[k]
           /\ DOMAIN feeOut.table \subseteq DOMAIN feeIn.table \cup {key}
           /\ feeIn.mem \subseteq feeOut.mem
           /\ feeOut.mem \subseteq feeIn.mem \cup {key}

\* markUsed ran with another transaction id, and the payer in another
\* letter case, for a key the table already held
C18_Witness ==
  /\ feeIn.test = "markUsed" /\ feeOut.done
  /\ feeIn.usePool /\ feeIn.up /\ feeIn.payer = "0xP1"
  /\ NonceKey(feeIn.payer, feeIn.nonce) \in DOMAIN feeIn.table
  /\ feeIn.txHash # feeIn.table[NonceKey(feeIn.payer, feeIn.nonce)]
  /\ feeOut.table = feeIn.table

\* C19: verification fails with a "not yet valid" reason when
\* validAfter > now, with an "expired" reason when validBefore <= now, and
\* (witness-spend) with an "expired" reason when deadline < now; an
\* authorization with validAfter <= now < validBefore and deadline >= now
\* passes the time check. (Stated for windows with validAfter < validBefore;
\* each reason is required where its condition is the only one that holds.)
C19_Original ==
  (feeIn.test = "time" /\ feeOut.done /\ feeIn.validAfter < feeIn.validBefore)
    => LET permit2 == feeIn.protocol = "permit2"
           early == feeIn.validAfter > feeIn.now
           late == feeIn.validBefore <= feeIn.now
           past == permit2 /\ feeIn.deadline < feeIn.now
       IN  /\ (early /\ ~late /\ ~past)
                => /\ ~feeOut.isValid
                   /\ feeOut.error = "Authorization not yet valid"
           /\ (late /\ ~early /\ ~past)
                => ~feeOut.isValid /\ "expired" \in feeOut.kw
           /\ (past /\ ~early /\ ~late)
                => ~feeOut.isValid /\ "expired" \in feeOut.kw
           /\ (~early /\ ~late /\ ~past) => feeOut.isValid

\* C20: in both authorization variants, a signed amount of 1 or 2^256 - 1
\* passes amount validation (the requirement being 1), and a signed amount
\* that is 0, negative, non-integer or >= 2^256 is rejected by verify and by
\* settle. (For ERC-3009 the negative and >= 2^256 amounts are left out:
\* their rejection rests on the typed-data library.)
C20_Original ==
  (feeIn.test = "amount" /\ feeOut.done)
    => /\ (feeIn.value \in {"1", "2^256-1"} /\ feeIn.required = "1")
            => feeOut.verify /\ feeOut.settle
       /\ (\/ feeIn.value \in {"0", "1.5"}
           \/ feeIn.protocol = "permit2" /\ feeIn.value \in {"-1", "2^256"})
            => ~feeOut.verify /\ ~feeOut.settle

\* the reasons of the checks the verify route runs before the payer's
\* readiness: verifySignature's errors and the replay check
EarlierVerifyReasons ==
  {"unsupported_token", "deadline_expired", "invalid_receiver",
   "amount_mismatch", "Nonce already used"}

\* C21: for a witness-spend authorization whose payer lacks the outer
\* allowance, a verify call that gets as far as the payer's readiness
\* answers HTTP 412 with the approval-required reason, also when the
\* balance is insufficient as well (never `Insufficient balance`).
C21_ApprovalFirst ==
  \A c \in Calls :
    (/\ calls[c].kind = "verify" /\ calls[c].pc = "done"
     /\ R(c).protocol = "permit2"
     /\ ~hasPermit2Approval(allowance, R(c))
     /\ calls[c].resp.reason \notin EarlierVerifyReasons)
      => /\ calls[c].resp.http = 412
         /\ ~calls[c].resp.isValid
         /\ calls[c].resp.reason = "Permit2 approval required"

\* a verify call answered 412 for a payer who has neither the approval nor
\* the balance
C21_Witness ==
  \E c \in Calls :
    /\ calls[c].kind = "verify" /\ calls[c].pc = "done"
    /\ R(c).protocol = "permit2"
    /\ ~hasPermit2Approval(allowance, R(c))
    /\ ~hasSufficientBalance(bal, R(c))
    /\ calls[c].resp.http = 412
    /\ calls[c].resp.reason = "Permit2 approval required"

\* the last transaction was a splitPayment call
lastSplit == splitter.last.fn = "splitPayment"

\* C22: splitPayment succeeds only for a caller that is currently an
\* authorized facilitator; it reverts for every other caller, including
\* one whose authorization the owner has revoked.
C22_OnlyFacilitator ==
  lastSplit =>
    (splitter.last.ok
       => splitter.last.sender \in splitter.authorizedFacilitators)

\* a facilitator whose authorization was revoked called splitPayment on an
\* open contract and was turned away
C22_Witness ==
  /\ lastSplit /\ ~splitter.last.ok
  /\ splitter.last.sender \in splitter.revoked
  /\ splitter.last.err = "NotAuthorizedFacilitator"

\* C23: a successful splitPayment(token, payer, recipient, amount)
\* transfers exactly amount - fee to the recipient and fee to the treasury,
\* so the splitter's token balance decreases by exactly amount.
C23_Original ==
  (lastSplit /\ splitter.last.ok)
    => LET call == splitter.last
           t == call.token
           fee == splitPaymentFee(call.amount, getTokenFee(splitter, t))
       IN  /\ call.feeAmount = fee
           /\ splitter.balanceOf[call.recipient][t]
                = call.before[call.recipient][t] + (call.amount - fee)
           /\ splitter.balanceOf["splitter"][t]
                = call.before["splitter"][t] - call.amount

\* C24: in every reachable state of the splitter contract,
\* getTokenFee(token) is at most 1000 bps for every token: the constructor,
\* setTokenFee, setTokenFeesBatch and setDefaultFee never store a fee above
\* 1000.
C24_FeeCap ==
  \A t \in SplitTokens :
    /\ getTokenFee(splitter, t) <= MAX_FEE_BPS
    /\ splitter.tokenFeeBps[t] <= MAX_FEE_BPS
    /\ splitter.defaultFeeBps <= MAX_FEE_BPS

\* a batch with a fee of 1001 bps was turned away whole, on a contract
\* that holds the maximum of 1000 bps for a token
C24_Witness ==
  /\ splitter.last.fn = "setTokenFeesBatch"
  /\ ~splitter.last.ok /\ splitter.last.err = "FeeTooHigh"
  /\ \E t \in SplitTokens :
       splitter.tokenConfigured[t] /\ getTokenFee(splitter, t) = MAX_FEE_BPS

\* the preconditions of the last splitPayment call other than the pause:
\* an authorized caller, a real token and recipient, an amount of at least
\* MIN_AMOUNT and within the settlement limit, a token the whitelist lets
\* through, and a splitter balance that covers the amount (a reverted call
\* leaves the contract as it was, so they are read off the current state)
lastSplitOtherwiseValid ==
  LET call == splitter.last
  IN  /\ call.sender \in splitter.authorizedFacilitators
      /\ call.token \in SplitTokens
      /\ call.recipient \notin {"zero", "splitter"}
      /\ call.amount >= MIN_AMOUNT
      /\ splitter.whitelistMode => call.token \in splitter.tokenWhitelisted
      /\ \/ splitter.maxSettlementAmount = 0
         \/ call.amount <= splitter.maxSettlementAmount
      /\ \/ call.ok
         \/ splitter.balanceOf["splitter"][call.token] >= call.amount

\* C25: while the contract is paused every splitPayment call reverts; once
\* it is not paused (after unpause()), a call that satisfies the other
\* preconditions succeeds.
C25_PauseBlocksSplit ==
  lastSplit =>
    /\ splitter.paused => (~splitter.last.ok /\ splitter.last.err = "EnforcedPause")
    /\ (~splitter.paused /\ lastSplitOtherwiseValid) => splitter.last.ok

\* the contract was paused and unpaused again, and the facilitator's call
\* went through
C25_Witness ==
  /\ lastSplit /\ splitter.everPaused /\ ~splitter.paused
  /\ splitter.last.ok

\* C26: with whitelist mode active splitPayment reverts for a token that is
\* not whitelisted and the whitelist never turns away a whitelisted token;
\* with the mode off the whitelist restricts nothing.
C26_Whitelist ==
  lastSplit =>
    LET call == splitter.last
        listed == call.token \in splitter.tokenWhitelisted
    IN  /\ (splitter.whitelistMode /\ ~listed) => ~call.ok
        /\ (~call.ok /\ call.err = "TokenNotWhitelisted")
             => (splitter.whitelistMode /\ ~listed)
        /\ (~splitter.paused /\ lastSplitOtherwiseValid) => call.ok

\* whitelist mode is on with one token listed, and a split of the other
\* token reverted with TokenNotWhitelisted
C26_Witness ==
  /\ lastSplit /\ splitter.whitelistMode
  /\ splitter.tokenWhitelisted # {}
  /\ splitter.last.token \in SplitTokens \ splitter.tokenWhitelisted
  /\ ~splitter.last.ok /\ splitter.last.err = "TokenNotWhitelisted"

\* a settle call is inside its simulate -> submit -> confirm -> split span:
\* it has simulated the spend with the facilitator account and has not yet
\* left the split (settlePayment lines 1196-1340, erc3009.ts lines 378-430)
inSettlementSpan(c) ==
  /\ calls[c].kind = "settle"
  /\ calls[c].pc \in {"s_submit", "s_wait", "s_split"}

\* C27 as stated: no two settlements that use the facilitator key are inside
\* their simulate -> submit -> confirm -> split span at the same time.
C27_Original ==
  \A c1, c2 \in Calls :
    (c1 # c2 /\ keyConfigured) => ~(inSettlementSpan(c1) /\ inSettlementSpan(c2))

\* C28 as stated: on a fully successful settlement the nonce was already
\* marked used in the replay store when the audit record was set to
\* success.
C28_Original ==
  \A c \in Calls :
    (SettleDone(c) /\ calls[c].svc = "ok" /\ calls[c].resp.success)
      => calls[c].nonceAtSuccess

\* C29 as stated: if marking the nonce used fails, the settlement is
\* reported as failed and its audit record ends in status failed.
C29_Original ==
  \A c \in Calls :
    (SettleDone(c) /\ calls[c].failedAt = "record")
      => /\ ~calls[c].resp.success
         /\ transactions[c].status = "failed"

\* the steps a settle call can fail at before it reaches recordNonceUsed:
\* verification, the nonce lookup, the balance check, the audit record, a
\* missing facilitator key, the simulation, the submission, a reverted
\* spend, a confirmation timeout, the split, the success update
FailuresBeforeMarking ==
  {"verify", "nonce", "funds", "create", "key", "simulate", "submit", "wait",
   "timeout", "split", "success"}

\* C30: a settle call that does not return success (simulation or
\* submission failure, revert, confirmation timeout, split failure) never
\* marks the nonce used: it wrote its key to none of the nonce stores, and
\* when no call of the authorization reached the nonce-marking step the
\* key is in no store.
C30_FailureDoesNotMark ==
  \A c \in Calls :
    (SettleDone(c) /\ calls[c].failedAt \in FailuresBeforeMarking)
      => /\ ~calls[c].resp.success
         /\ ~calls[c].marked
         /\ (\A d \in Calls : ~calls[d].marked)
              => ~InNonceStore(NonceKey(calls[c].payer, R(c).nonce))

\* a settlement whose spend was confirmed failed at the split, and one
\* whose confirmation timed out, both with the nonce unmarked
C30_Witness ==
  \E c, d \in Calls :
    /\ SettleDone(c) /\ calls[c].failedAt = "split" /\ ~calls[c].marked
    /\ SettleDone(d) /\ calls[d].failedAt = "timeout" /\ ~calls[d].marked
    /\ ~InNonceStore(NonceKey(calls[c].payer, R(c).nonce))
    /\ ~InNonceStore(NonceKey(calls[d].payer, R(d).nonce))

\* C31 as stated: once a settle call has submitted its spend transaction,
\* its audit record reaches success or failed; a record does not stay
\* pending after the call has ended (checked on the in-memory store, where
\* no write to the record can fail).
C31_Original ==
  \A c \in Calls :
    (SettleDone(c) /\ calls[c].submitted /\ ~pool)
      => transactions[c].status \in {"success", "failed"}

\* C32: a settle call simulates or submits its spend only while its audit
\* record exists in status pending; a call whose record could not be
\* created ends without a record, without a submitted spend and without a
\* transaction on chain.
C32_RecordBeforeChain ==
  [][\A c \in Calls :
       /\ (calls[c].pc \in {"s_simulate", "s_submit"} /\ calls'[c] # calls[c])
            => (transactions[c] # NoTx /\ transactions[c].status = "pending")
       /\ (calls'[c].pc = "done" /\ calls'[c].failedAt = "create")
            => /\ transactions'[c] = NoTx
               /\ ~calls'[c].submitted
               /\ chainTx'[c] = "none"]_vars

\* one call was aborted by a failed INSERT of its audit record, another
\* submitted its spend with its record in place
C32_Witness ==
  \E c, d \in Calls :
    /\ SettleDone(c) /\ calls[c].failedAt = "create"
    /\ transactions[c] = NoTx /\ chainTx[c] = "none"
    /\ calls[d].submitted /\ transactions[d] # NoTx

\* C33 as stated: a settlement goes through the splitter (splitPayment is
\* called after the spend) only if a fee splitter is configured for the
\* chain and requirements.payTo equals the splitter contract; otherwise the
\* spend goes directly to the receiver and no splitPayment call is made.
C33_Original ==
  (feeIn.test = "route" /\ feeOut.done)
    => LET viaSplitter == feeIn.enabled /\ feeIn.payTo = "splitter"
       IN  /\ feeOut.split => (viaSplitter /\ feeOut.spendTo = "splitter")
           /\ ~viaSplitter => (feeOut.spendTo = feeIn.payTo /\ ~feeOut.split)

\* C34: within one settle call the authorization-spend transaction is
\* submitted at most once: the submission step is left for the wait or for
\* the end of the call, a call past the submission never simulates or
\* submits again, and its spend transaction is never replaced.
C34_SpendOnce ==
  [][\A c \in Calls :
       /\ (calls[c].pc = "s_submit" /\ calls'[c] # calls[c])
            => calls'[c].pc \in {"s_wait", "done"}
       /\ calls[c].pc \in {"s_wait", "s_split", "s_success", "s_record", "done"}
            => /\ calls'[c].pc \notin {"s_simulate", "s_submit"}
               /\ chainTx'[c] = chainTx[c]
               /\ calls'[c].submitted = calls[c].submitted]_vars

\* one call ended with a failed submission, another went through the split
\* after its one spend
C34_Witness ==
  \E c, d \in Calls :
    /\ SettleDone(c) /\ calls[c].failedAt = "submit" /\ ~calls[c].submitted
    /\ chainTx[c] = "none"
    /\ SettleDone(d) /\ calls[d].submitted /\ calls[d].svc = "ok"
    /\ useFeeSplitter /\ R(d).protocol = "permit2"

\* C35: in one splitPayment call the submission is attempted at most 3
\* times, and a further attempt is made only after a failure whose message
\* contains "replacement transaction underpriced", "nonce too low" or
\* "already known"; any other error ends the loop at once.
C35_BoundedRetry ==
  (feeIn.test = "retry" /\ feeOut.done)
    => /\ feeOut.attempts <= 3
       /\ feeOut.attempts >= 1
       /\ \A k \in 1..(feeOut.attempts - 1) :
            feeIn.outcomes[k] \in
              {"replacement transaction underpriced",
               "rpc error: nonce too low (next nonce 7)", "already known"}
       /\ feeOut.result = "submitted"
            <=> feeIn.outcomes[feeOut.attempts] = "ok"

\* two nonce conflicts, then a third attempt that fails too: the loop gives
\* up after it although a fourth submission would have gone through
C35_Witness ==
  /\ feeIn.test = "retry" /\ feeOut.done
  /\ feeOut.attempts = 3 /\ feeOut.result = "thrown"
  /\ feeIn.outcomes[3] = "already known"
  /\ feeIn.outcomes[4] = "ok"

\* C36: the in-memory nonce cache can only turn an answer into "used":
\* whenever the cache does not contain (payer, nonce) the answer of
\* checkNonceUsed is the answer of the store, and with the database in use
\* and readable that answer is whether the table holds the key.
C36_CacheOnlyPositive ==
  (feeIn.test = "isUsed" /\ feeOut.done)
    => /\ feeIn.key \notin feeIn.memSet
            => feeOut.checkNonceUsed = feeOut.isNonceUsed
       /\ feeOut.isNonceUsed => feeOut.checkNonceUsed
       /\ (feeIn.usePool /\ feeIn.up)
            => feeOut.isNonceUsed = (feeIn.key \in DOMAIN feeIn.table)

\* the cache holds another key only, the table holds the key asked for:
\* the answer is "used", from the table
C36_Witness ==
  /\ feeIn.test = "isUsed" /\ feeOut.done
  /\ feeIn.memSet # {} /\ feeIn.key \notin feeIn.memSet
  /\ feeIn.key \notin feeIn.mem
  /\ feeIn.usePool /\ feeIn.up /\ feeIn.key \in DOMAIN feeIn.table
  /\ feeOut.checkNonceUsed

\* C37: functions passed to withSettlementLock run one at a time and in
\* the order withSettlementLock was called: a function starts only after
\* every function submitted earlier has settled.
C37_Fifo ==
  /\ Cardinality({k \in LockFns : lock.fn[k] = "running"}) <= 1
  /\ \A i \in 1..Len(lock.started) : lock.started[i] = i
  /\ \A k \in LockFns :
       lock.fn[k] \in {"running"} \cup Settled
         => \A j \in 1..(k - 1) : lock.fn[j] \in Settled

\* four calls were made; the first two functions have settled, one of them
\* by rejecting, the third runs and the fourth waits
C37_Witness ==
  /\ lock.n = 4
  /\ lock.fn[1] = "rejected" /\ lock.fn[2] = "fulfilled"
  /\ lock.fn[3] = "running" /\ lock.fn[4] = "waiting"
  /\ lock.started = <<1, 2, 3>>

\* C40: if a function passed to withSettlementLock throws or rejects, the
\* lock is still released, so every function submitted later is eventually
\* started (no deadlock).
C40_ReleasedOnFailure ==
  \A k \in LockFns :
    /\ (lock.fn[k] \in {"rejected", "threw"}) ~> (k \in lock.resolved)
    /\ (lock.fn[k] = "waiting") ~> (lock.fn[k] # "waiting")

\* the first function rejected, the second threw, and the third was
\* started after them
C40_Witness ==
  /\ lock.fn[1] = "rejected" /\ lock.fn[2] = "threw"
  /\ {1, 2} \subseteq lock.resolved
  /\ lock.fn[3] = "running"

\* C38 as stated: after a settle attempt for a (payer, nonce) ended failed
\* without the nonce being marked, a later settle call with the same
\* authorization is not rejected when its audit record is opened (checked
\* with the facilitator key configured).
C38_Original ==
  \A c, d \in Calls :
    (/\ c < d /\ calls[d].req = calls[c].req /\ c \notin calls[d].peers
     /\ keyConfigured
     /\ SettleDone(c) /\ calls[c].svc = "fail"
     /\ transactions[c] # NoTx /\ transactions[c].status = "failed"
     /\ ~InNonceStore(NonceKey(calls[c].payer, R(c).nonce))
     /\ SettleDone(d))
      => calls[d].failedAt # "create"

\* C39 as stated: when a settlement goes through the splitter, the fee
\* stored in its audit record equals the fee the splitPayment call took on
\* chain, which is the fee reported in the settle result and in the
\* settlement.success event (here the settlement is the only spend mined
\* on its token, so the treasury's credit is the fee of its split).
C39_Original ==
  \A c \in Calls :
    (/\ SettleDone(c) /\ calls[c].svc = "ok"
     /\ useFeeSplitter /\ R(c).protocol = "permit2"
     /\ minedOn(R(c).token) = {c})
      => LET taken == credit["treasury"][R(c).token]
         IN  /\ transactions[c].fee = taken
             /\ calls[c].fee = taken
             /\ \E ev \in webhookEvents :
                  /\ ev.event = "settlement.success" /\ ev.tx = c
                  /\ ev.fee = taken

====
